---- MODULE Spec2Model ----
(***************************************************************************)
(* devflow: correlation of one ticket across the issue tracker, the local  *)
(* git working tree and the code host.                                     *)
(*                                                                         *)
(* Strings are sequences of one-character strings, so that the splitting,  *)
(* cleaning and joining of internal/utils/branch.go are computed as the    *)
(* code computes them.                                                     *)
(***************************************************************************)
EXTENDS Integers, Sequences, FiniteSets, TLC

VARIABLES
    fn,           \* the last call of a pure function: its inputs and its result
    cfg,          \* the configuration record (config.Settings), loaded by every command
    head,         \* git: the checked-out branch, or Detached
    branches,     \* git: the local branches
    staged,       \* git: the index holds changes
    unstaged,     \* git: the working tree holds changes that are not in the index
    log,          \* git: the commits made, oldest first: [branch, message]
    remote,       \* git: the branches pushed to origin
    transitions,  \* tracker: the transitions applied, oldest first: [ticket, name]
    requests,     \* code host: the pull/merge requests created, oldest first
    tracker,      \* tracker: the summary of the ticket, as GetTicket returns it
    last,         \* the outcome of the last command invocation
    run           \* observer of the scenario start; commit; done

vars == <<fn, cfg, head, branches, staged, unstaged, log, remote, transitions,
          requests, tracker, last, run>>

flowVars == <<cfg, head, branches, staged, unstaged, log, remote, transitions,
              requests, tracker, last, run>>

----------------------------------------------------------------------------
(* Characters and strings                                                  *)

UpperLetters == <<"A","B","C","D","E","F","G","H","I","J","K","L","M",
                  "N","O","P","Q","R","S","T","U","V","W","X","Y","Z","É">>

LowerLetters == <<"a","b","c","d","e","f","g","h","i","j","k","l","m",
                  "n","o","p","q","r","s","t","u","v","w","x","y","z","é">>

Digits == {"0","1","2","3","4","5","6","7","8","9"}

Range(f) == {f[i] : i \in DOMAIN f}

UpperSet == Range(UpperLetters)
LowerSet == Range(LowerLetters)

\* unicode.IsLetter
IsLetter(c) == c \in UpperSet \/ c \in LowerSet

\* unicode.IsDigit
IsDigit(c) == c \in Digits

\* the case mappings of the letters
LowerOf ==
    [c \in UpperSet |->
        LowerLetters[CHOOSE i \in DOMAIN UpperLetters : UpperLetters[i] = c]]

UpperOf ==
    [c \in LowerSet |->
        UpperLetters[CHOOSE i \in DOMAIN LowerLetters : LowerLetters[i] = c]]

\* unicode.ToLower / unicode.ToUpper of one rune
LowerRune(c) == IF c \in UpperSet THEN LowerOf[c] ELSE c

UpperRune(c) == IF c \in LowerSet THEN UpperOf[c] ELSE c

\* strings.ToLower, strings.ToUpper
ToLower(s) == [i \in DOMAIN s |-> LowerRune(s[i])]
ToUpper(s) == [i \in DOMAIN s |-> UpperRune(s[i])]

\* the UTF-8 width of a rune: Go's len(string) counts bytes
RuneBytes(c) == IF c \in {"é", "É"} THEN 2 ELSE 1

RECURSIVE ByteLen(_)
ByteLen(s) == IF s = <<>> THEN 0 ELSE RuneBytes(Head(s)) + ByteLen(Tail(s))

\* strings.Contains
Contains(s, sub) ==
    \E i \in 0..(Len(s) - Len(sub)) :
        \A j \in 1..Len(sub) : s[i + j] = sub[j]

\* strings.Split(s, sep) for a one-character separator
RECURSIVE SplitFrom(_, _, _)
SplitFrom(s, sep, cur) ==
    IF s = <<>> THEN <<cur>>
    ELSE IF Head(s) = sep
         THEN <<cur>> \o SplitFrom(Tail(s), sep, <<>>)
         ELSE SplitFrom(Tail(s), sep, Append(cur, Head(s)))

Split(s, sep) == SplitFrom(s, sep, <<>>)

\* strings.Join
RECURSIVE Join(_, _)
Join(parts, sep) ==
    IF parts = <<>> THEN <<>>
    ELSE IF Len(parts) = 1 THEN parts[1]
         ELSE parts[1] \o sep \o Join(Tail(parts), sep)

\* the slice expression s[:n] of Go, for n <= len(s)
Take(s, n) == SubSeq(s, 1, n)

----------------------------------------------------------------------------
(* internal/utils/branch.go                                                *)

\* the words kept in a slug: the loop breaks at len(cleaned) == 5
MaxSlugWords == 5

\* the separator set of the strings.FieldsFunc callback
IsSeparator(r) == r \in {" ", ":", "!", "?", ",", ";", "."}

\* strings.FieldsFunc(lowered, IsSeparator): maximal runs of non-separators
RECURSIVE FieldsFrom(_, _)
FieldsFrom(s, cur) ==
    IF s = <<>> THEN (IF cur = <<>> THEN <<>> ELSE <<cur>>)
    ELSE IF IsSeparator(Head(s))
         THEN (IF cur = <<>> THEN <<>> ELSE <<cur>>) \o FieldsFrom(Tail(s), <<>>)
         ELSE FieldsFrom(Tail(s), Append(cur, Head(s)))

Fields(s) == FieldsFrom(s, <<>>)

KeepRune(r) == IsLetter(r) \/ IsDigit(r)

\* the cleaning loop: keep letters and digits of each word, keep the word if
\* its byte length exceeds 1, stop at five words
RECURSIVE CleanWords(_, _)
CleanWords(words, cleaned) ==
    IF words = <<>> THEN cleaned
    ELSE LET candidate == SelectSeq(Head(words), KeepRune)
             next == IF ByteLen(candidate) > 1 THEN Append(cleaned, candidate)
                     ELSE cleaned
         IN  IF Len(next) = MaxSlugWords THEN next
             ELSE CleanWords(Tail(words), next)

Slug(summary) == CleanWords(Fields(ToLower(summary)), <<>>)

FormatBranchName(prefix, ticketID, summary) ==
    LET cleaned == Slug(summary)
    IN  IF Len(cleaned) = 0
        THEN prefix \o <<"/">> \o ticketID
        ELSE prefix \o <<"/">> \o ticketID \o <<"/">> \o Join(cleaned, <<"_">>)

NoTicket == [ok |-> FALSE, id |-> <<>>]

\* mutant: the whole second segment is returned
ExtractTicketID_WholeSegment(branch) ==
    LET parts == Split(branch, "/")
    IN  IF Len(parts) < 2 \/ ~Contains(parts[2], <<"-">>) THEN NoTicket
        ELSE [ok |-> TRUE, id |-> parts[2]]

ExtractTicketID(branch) ==
    LET parts == Split(branch, "/")
    IN  IF Len(parts) < 2 THEN NoTicket
        ELSE LET ticketPart == parts[2]
             IN  IF ~Contains(ticketPart, <<"-">>) THEN NoTicket
                 ELSE LET segments == Split(ticketPart, "-")
                      IN  IF Len(segments) < 2 THEN NoTicket
                          ELSE LET ticketID == Join(Take(segments, 2), <<"-">>)
                               IN  IF ticketID = <<>> THEN NoTicket
                                   ELSE [ok |-> TRUE, id |-> ticketID]

----------------------------------------------------------------------------
(* String literals of internal/app/commands.go                             *)

Main == <<"m","a","i","n">>
Feat == <<"f","e","a","t">>
InProgress == <<"I","n"," ","P","r","o","g","r","e","s","s">>
InReview == <<"I","n"," ","R","e","v","i","e","w">>
GitHub == <<"g","i","t","h","u","b">>
GitLab == <<"g","i","t","l","a","b">>
Browse == <<"/","b","r","o","w","s","e","/">>
Resolves == <<"R","e","s","o","l","v","e","s"," ">>
JiraLabel == <<"\n","\n","J","i","r","a",":"," ">>

\* git rev-parse --abbrev-ref HEAD prints HEAD when no branch is checked out
Detached == <<"H","E","A","D">>

\* config.Load found no record
NoConfig == [missing |-> TRUE]

----------------------------------------------------------------------------
(* The gateways: each operation takes the world and the outcome the        *)
(* environment gives the call, and returns the result and the new world.   *)

World == [head |-> head, branches |-> branches, staged |-> staged,
          unstaged |-> unstaged, log |-> log, remote |-> remote,
          transitions |-> transitions, requests |-> requests]

\* git.Client.CurrentBranch: fails when git fails or HEAD is detached
GitCurrentBranch(w, gitOk) ==
    IF gitOk /\ w.head # Detached
    THEN [ok |-> TRUE, branch |-> w.head]
    ELSE [ok |-> FALSE, branch |-> <<>>]

\* mutant: staged changes are not seen
GitIsClean_UnstagedOnly(w, gitOk) ==
    [ok |-> gitOk, clean |-> gitOk /\ ~w.unstaged]

\* git.Client.IsClean: git status --porcelain prints nothing
GitIsClean(w, gitOk) ==
    [ok |-> gitOk, clean |-> gitOk /\ ~w.staged /\ ~w.unstaged]

\* git.Client.CreateBranch: git checkout -b fails when the branch exists
GitCreateBranch(w, name, gitOk) ==
    IF gitOk /\ name \notin w.branches
    THEN [ok |-> TRUE, w |-> [w EXCEPT !.branches = @ \cup {name}, !.head = name]]
    ELSE [ok |-> FALSE, w |-> w]

\* git.Client.Commit: git add -A, then git commit -m message, which fails
\* when nothing is staged
GitCommit(w, message, addOk, commitOk) ==
    IF ~addOk THEN [ok |-> FALSE, w |-> w]
    ELSE LET added == [w EXCEPT !.staged = w.staged \/ w.unstaged,
                                !.unstaged = FALSE]
         IN  IF commitOk /\ added.staged
             THEN [ok |-> TRUE,
                   w |-> [added EXCEPT !.staged = FALSE,
                              !.log = Append(@, [branch |-> w.head,
                                                 message |-> message])]]
             ELSE [ok |-> FALSE, w |-> added]

\* git.Client.Push: git push -u origin branch
GitPush(w, branch, gitOk) ==
    IF gitOk
    THEN [ok |-> TRUE, w |-> [w EXCEPT !.remote = @ \cup {branch}]]
    ELSE [ok |-> FALSE, w |-> w]

\* jiraService.UpdateStatus: the tracker records the transition it applied
JiraUpdateStatus(w, ticketID, name, jiraOk) ==
    IF jiraOk
    THEN [ok |-> TRUE,
          w |-> [w EXCEPT !.transitions =
                              Append(@, [ticket |-> ticketID, name |-> name])]]
    ELSE [ok |-> FALSE, w |-> w]

\* gitHubService.CreatePullRequest / gitLabService.CreateMergeRequest
HostCreateRequest(w, provider, project, source, target, title, body, hostOk) ==
    IF hostOk
    THEN [ok |-> TRUE,
          w |-> [w EXCEPT !.requests =
                     Append(@, [provider |-> provider, project |-> project,
                                source |-> source, target |-> target,
                                title |-> title,
                                description |-> body])]]
    ELSE [ok |-> FALSE, w |-> w]

----------------------------------------------------------------------------
(* The outcome of one command invocation                                   *)

NewOutcome(cmd, arg) ==
    [cmd |-> cmd, arg |-> arg, calls |-> <<>>, err |-> "", warn |-> FALSE,
     already |-> FALSE, opened |-> FALSE, ticket |-> <<>>, branch |-> <<>>,
     summary |-> <<>>, message |-> <<>>, url |-> FALSE]

\* the handler made gateway call op, which succeeded or not
Called(h, op, ok) ==
    [h EXCEPT !.out.calls = Append(@, [op |-> op, ok |-> ok])]

\* return err
Failed(h, kind) == [h EXCEPT !.out.err = kind]

\* git.NewClient found the working tree
Opened(h) == [h EXCEPT !.out.opened = TRUE]

\* loadSettings
LoadSettings(c) == IF c = NoConfig THEN [ok |-> FALSE] ELSE [ok |-> TRUE]

----------------------------------------------------------------------------
(* handleStart                                                             *)

\* mutant: the guard compares case-sensitively
AlreadyOnBranch_CaseSensitive(branch, ticketID) == Contains(branch, ticketID)

\* the idempotence guard: the current branch contains the ticket ID,
\* compared in upper case
AlreadyOnBranch(branch, ticketID) ==
    Contains(ToUpper(branch), ToUpper(ticketID))

\* mutant: a failed transition aborts start
StartTransition_Fatal(h, c, ticketID, o) ==
    IF c.transition # <<>>
    THEN LET r == JiraUpdateStatus(h.w, ticketID, c.transition, o.update)
             h1 == Called([h EXCEPT !.w = r.w], "UpdateStatus", r.ok)
         IN  IF ~r.ok THEN Failed(h1, "tracker") ELSE h1
    ELSE h

\* the default transition, if one is configured; its failure is printed
StartTransition(h, c, ticketID, o) ==
    IF c.transition # <<>>
    THEN LET r == JiraUpdateStatus(h.w, ticketID, c.transition, o.update)
             h1 == Called([h EXCEPT !.w = r.w], "UpdateStatus", r.ok)
         IN  IF ~r.ok THEN [h1 EXCEPT !.out.warn = TRUE] ELSE h1
    ELSE h

\* mutant: the error of CreateBranch is not returned
StartBranch_NoGate(h, c, ticketID, summary, o) ==
    LET prefix == IF c.prefix = <<>> THEN Feat ELSE c.prefix
        branchName == FormatBranchName(prefix, ticketID, summary)
        r == GitCreateBranch(h.w, branchName, o.git)
        h1 == Called([h EXCEPT !.w = r.w, !.out.branch = branchName,
                               !.out.summary = summary],
                     "CreateBranch", r.ok)
    IN  StartTransition(h1, c, ticketID, o)

\* the branch name from the prefix (feat when unset), then git checkout -b
StartBranch(h, c, ticketID, summary, o) ==
    LET prefix == IF c.prefix = <<>> THEN Feat ELSE c.prefix
        branchName == FormatBranchName(prefix, ticketID, summary)
        r == GitCreateBranch(h.w, branchName, o.git)
        h1 == Called([h EXCEPT !.w = r.w, !.out.branch = branchName,
                               !.out.summary = summary],
                     "CreateBranch", r.ok)
    IN  IF ~r.ok THEN Failed(h1, "git")
        ELSE StartTransition(h1, c, ticketID, o)

\* jiraClient.GetTicket(ticketID)
StartFetch(h, c, ticketID, summary, o) ==
    LET h1 == Called(h, "GetTicket", o.fetch)
    IN  IF ~o.fetch THEN Failed(h1, "tracker")
        ELSE StartBranch(h1, c, ticketID, summary, o)

\* if CurrentBranch succeeds and the branch holds the ticket ID: return nil
StartGuard(h, c, ticketID, summary, o) ==
    LET cur == GitCurrentBranch(h.w, o.current)
        h1 == Called(h, "CurrentBranch", cur.ok)
    IN  IF cur.ok /\ AlreadyOnBranch(cur.branch, ticketID)
        THEN [h1 EXCEPT !.out.already = TRUE, !.out.branch = cur.branch]
        ELSE StartFetch(h1, c, ticketID, summary, o)

HandleStart(w, c, ticketID, summary, o) ==
    LET h == [w |-> w, out |-> [NewOutcome("start", ticketID)
                                    EXCEPT !.ticket = ticketID]]
    IN  IF ~LoadSettings(c).ok THEN Failed(h, "config")
        ELSE IF ~o.repo THEN Failed(h, "repo")
        ELSE StartGuard(Opened(h), c, ticketID, summary, o)

----------------------------------------------------------------------------
(* handleCommit                                                            *)

\* mutant: the trailer follows the message without a blank line
CommitMessage_NoBlankLine(message, ticketID, url) ==
    message \o <<"\n">> \o ticketID \o <<":"," ">> \o url \o Browse
            \o ticketID

\* fmt.Sprintf("%s\n\n%s: %s/browse/%s", message, ticketID, url, ticketID)
CommitMessage(message, ticketID, url) ==
    message \o <<"\n","\n">> \o ticketID \o <<":"," ">> \o url \o Browse
            \o ticketID

\* gitClient.Commit(formatted)
CommitCreate(h, c, message, ticketID, o) ==
    LET formatted == CommitMessage(message, ticketID, c.url)
        r == GitCommit(h.w, formatted, o.add, o.commit)
        h1 == Called([h EXCEPT !.w = r.w, !.out.message = formatted],
                     "Commit", r.ok)
    IN  IF ~r.ok THEN Failed(h1, "git") ELSE h1

\* mutant: commit goes on with a branch that holds no ticket ID
CommitBranch_NoCheck(h, c, message, o) ==
    LET cur == GitCurrentBranch(h.w, o.current)
        h1 == Called(h, "CurrentBranch", cur.ok)
        t == ExtractTicketID(cur.branch)
    IN  CommitCreate([h1 EXCEPT !.out.branch = cur.branch, !.out.ticket = t.id],
                     c, message, t.id, o)

\* CurrentBranch, then ExtractTicketID(branch)
CommitBranch(h, c, message, o) ==
    LET cur == GitCurrentBranch(h.w, o.current)
        h1 == Called(h, "CurrentBranch", cur.ok)
    IN  IF ~cur.ok THEN Failed(h1, "git")
        ELSE LET t == ExtractTicketID(cur.branch)
                 h2 == [h1 EXCEPT !.out.branch = cur.branch]
             IN  IF ~t.ok THEN Failed(h2, "correlation")
                 ELSE CommitCreate([h2 EXCEPT !.out.ticket = t.id], c, message,
                                   t.id, o)

HandleCommit(w, c, message, o) ==
    LET h == [w |-> w, out |-> NewOutcome("commit", message)]
    IN  IF ~LoadSettings(c).ok THEN Failed(h, "config")
        ELSE IF ~o.repo THEN Failed(h, "repo")
        ELSE CommitBranch(Opened(h), c, message, o)

----------------------------------------------------------------------------
(* handleDone                                                              *)

\* filepath.Base(gitClient.Root()): the directory name of the working tree
ProjectDir == <<"r","e","p","o">>

\* mutant: the title leaves out the summary
PRTitle_TicketOnly(ticketID, summary) == ticketID

\* fmt.Sprintf("%s: %s", ticketID, ticket.Fields.Summary)
PRTitle(ticketID, summary) == ticketID \o <<":"," ">> \o summary

\* fmt.Sprintf("Resolves %s\n\nJira: %s/browse/%s", ticketID, url, ticketID)
PRDescription(ticketID, url) ==
    Resolves \o ticketID \o JiraLabel \o url \o Browse \o ticketID

\* mutant: a failed transition aborts done
DoneTransition_Fatal(h, ticketID, o) ==
    LET r == JiraUpdateStatus(h.w, ticketID, InReview, o.update)
        h1 == Called([h EXCEPT !.w = r.w], "UpdateStatus", r.ok)
    IN  IF ~r.ok THEN Failed(h1, "tracker") ELSE h1

\* UpdateStatus(ticketID, "In Review"): its failure is printed
DoneTransition(h, ticketID, o) ==
    LET r == JiraUpdateStatus(h.w, ticketID, InReview, o.update)
        h1 == Called([h EXCEPT !.w = r.w], "UpdateStatus", r.ok)
    IN  IF ~r.ok THEN [h1 EXCEPT !.out.warn = TRUE] ELSE h1

\* mutant: the transition is attempted although the create request failed
DoneCreate_Transition(h, c, branch, ticketID, summary, o) ==
    LET provider == ToLower(c.provider)
        r == HostCreateRequest(h.w, provider, ProjectDir, branch, Main,
                               PRTitle(ticketID, summary),
                               PRDescription(ticketID, c.url), o.host)
        h1 == Called([h EXCEPT !.w = r.w], "CreateRequest", r.ok)
    IN  IF ~r.ok THEN Failed(DoneTransition(h1, ticketID, o), "provider")
        ELSE DoneTransition([h1 EXCEPT !.out.url = TRUE], ticketID, o)

\* mutant: no second request is created for a branch that has one
DoneCreate_Once(h, c, branch, ticketID, summary, o) ==
    LET provider == ToLower(c.provider)
        project == IF provider = GitHub THEN c.owner \o <<"/">> \o c.repo
                   ELSE ProjectDir
        r == HostCreateRequest(h.w, provider, project, branch, Main,
                               PRTitle(ticketID, summary),
                               PRDescription(ticketID, c.url), o.host)
        h1 == Called([h EXCEPT !.w = r.w], "CreateRequest", r.ok)
    IN  IF provider = GitHub /\ (c.owner = <<>> \/ c.repo = <<>>)
        THEN Failed(h, "owner/repo")
        ELSE IF provider \notin {GitHub, GitLab} THEN Failed(h, "unsupported")
        ELSE IF \E i \in DOMAIN h.w.requests : h.w.requests[i].source = branch
        THEN [h EXCEPT !.out.url = TRUE]
        ELSE IF ~r.ok THEN Failed(h1, "provider")
        ELSE DoneTransition([h1 EXCEPT !.out.url = TRUE], ticketID, o)

\* the switch on strings.ToLower(settings.Git.Provider)
DoneCreate(h, c, branch, ticketID, summary, o) ==
    LET prTitle == PRTitle(ticketID, summary)
        prDescription == PRDescription(ticketID, c.url)
        provider == ToLower(c.provider)
        Create(project) ==
            LET r == HostCreateRequest(h.w, provider, project, branch, Main,
                                       prTitle, prDescription, o.host)
                h1 == Called([h EXCEPT !.w = r.w], "CreateRequest", r.ok)
            IN  IF ~r.ok THEN Failed(h1, "provider")
                ELSE DoneTransition([h1 EXCEPT !.out.url = TRUE], ticketID, o)
    IN  IF provider = GitHub
        THEN IF c.owner = <<>> \/ c.repo = <<>>
             THEN Failed(h, "owner/repo")
             ELSE Create(c.owner \o <<"/">> \o c.repo)
        ELSE IF provider = GitLab THEN Create(ProjectDir)
        ELSE Failed(h, "unsupported")

\* mutant: done goes on after a failed GetTicket
DoneFetch_NoGate(h, c, branch, ticketID, summary, o) ==
    LET h1 == Called(h, "GetTicket", o.fetch)
    IN  DoneCreate([h1 EXCEPT !.out.summary = summary], c, branch, ticketID,
                   summary, o)

\* jiraClient.GetTicket(ticketID)
DoneFetch(h, c, branch, ticketID, summary, o) ==
    LET h1 == Called(h, "GetTicket", o.fetch)
    IN  IF ~o.fetch THEN Failed(h1, "tracker")
        ELSE DoneCreate([h1 EXCEPT !.out.summary = summary], c, branch,
                        ticketID, summary, o)

\* mutant: the provider selection is checked before the push
DonePush_ProviderFirst(h, c, branch, ticketID, summary, o) ==
    LET r == GitPush(h.w, branch, o.git)
        h1 == Called([h EXCEPT !.w = r.w], "Push", r.ok)
        provider == ToLower(c.provider)
    IN  IF provider \notin {GitHub, GitLab} THEN Failed(h, "unsupported")
        ELSE IF provider = GitHub /\ (c.owner = <<>> \/ c.repo = <<>>)
        THEN Failed(h, "owner/repo")
        ELSE IF ~r.ok THEN Failed(h1, "git")
        ELSE DoneFetch(h1, c, branch, ticketID, summary, o)

\* gitClient.Push(branch)
DonePush(h, c, branch, ticketID, summary, o) ==
    LET r == GitPush(h.w, branch, o.git)
        h1 == Called([h EXCEPT !.w = r.w], "Push", r.ok)
    IN  IF ~r.ok THEN Failed(h1, "git")
        ELSE DoneFetch(h1, c, branch, ticketID, summary, o)

\* CurrentBranch, then ExtractTicketID(branch)
DoneBranch(h, c, summary, o) ==
    LET cur == GitCurrentBranch(h.w, o.current)
        h1 == Called(h, "CurrentBranch", cur.ok)
    IN  IF ~cur.ok THEN Failed(h1, "git")
        ELSE LET t == ExtractTicketID(cur.branch)
                 h2 == [h1 EXCEPT !.out.branch = cur.branch]
             IN  IF ~t.ok THEN Failed(h2, "correlation")
                 ELSE DonePush([h2 EXCEPT !.out.ticket = t.id], c, cur.branch,
                               t.id, summary, o)

\* IsClean: an error of git, or the "uncommitted changes detected" error
DoneClean(h, c, summary, o) ==
    LET r == GitIsClean(h.w, o.status)
        h1 == Called(h, "IsClean", r.ok)
    IN  IF ~r.ok THEN Failed(h1, "git")
        ELSE IF ~r.clean THEN Failed(h1, "uncommitted")
        ELSE DoneBranch(h1, c, summary, o)

HandleDone(w, c, summary, o) ==
    LET h == [w |-> w, out |-> NewOutcome("done", <<>>)]
    IN  IF ~LoadSettings(c).ok THEN Failed(h, "config")
        ELSE IF ~o.repo THEN Failed(h, "repo")
        ELSE DoneClean(Opened(h), c, summary, o)

----------------------------------------------------------------------------
(* Inputs and bounds                                                       *)

\* the branches, commits and pull/merge requests the commands of one run
\* create, taken together
MaxEffects == 3

\* the ticket IDs given to start
TicketArgs == { <<"A","B","-","1">>, <<"a","b","-","1">> }

\* the summaries the tracker may hold for the ticket
TicketSummaries == { <<"F","i","x"," ","i","t","!">> }

\* the messages given to commit
Messages == { <<"w","i","p">> }

JiraURL == <<"j",".","c","o">>

Settings(prefix, transition, provider, owner, repo) ==
    [url |-> JiraURL, prefix |-> prefix, transition |-> transition,
     provider |-> provider, owner |-> owner, repo |-> repo]

\* the configuration records a run starts with
Configs ==
    { NoConfig,
      Settings(<<>>, InProgress, GitLab, <<>>, <<>>),
      Settings(<<"f","i","x">>, <<>>, <<"G","i","t","H","u","b">>, <<"o">>, <<"r">>),
      Settings(<<"a","/","b">>, InProgress, GitLab, <<>>, <<>>),
      Settings(Feat, InProgress, GitHub, <<>>, <<"r">>),
      Settings(Feat, <<>>, <<"s","v","n">>, <<>>, <<>>) }

\* the outcomes the environment gives the gateway calls of one invocation,
\* one field per call: every call succeeds, or exactly one of them fails
Oracles(calls) == { [c \in calls |-> c # bad] : bad \in calls \cup {"none"} }

StartOracles == Oracles({"repo", "current", "fetch", "git", "update"})

CommitOracles == Oracles({"repo", "current", "add", "commit"})

DoneOracles == Oracles({"repo", "status", "current", "git", "fetch", "host",
                        "update"})

----------------------------------------------------------------------------
(* The state machine                                                       *)

Idle == NewOutcome("none", <<>>)

NoCall == [op |-> "none"]

\* every gateway call of the invocation succeeded
AllCallsOk(out) == \A i \in DOMAIN out.calls : out.calls[i].ok

\* the provider selection handleDone accepts
ValidProvider(c) ==
    \/ ToLower(c.provider) = GitLab
    \/ ToLower(c.provider) = GitHub /\ c.owner # <<>> /\ c.repo # <<>>

\* the observer of the scenario start; commit; done from a fresh repository,
\* with file edits before the commit: "broken" when a command of the
\* scenario returns an error although every gateway call it made succeeded
RunAfter(out) ==
    LET next == CASE run.phase = "fresh" /\ out.cmd = "start" -> "started"
                  [] run.phase = "started" /\ out.cmd = "commit" -> "committed"
                  [] run.phase = "committed" /\ out.cmd = "done" -> "finished"
                  [] OTHER -> "off"
        valid == /\ cfg # NoConfig /\ out.opened /\ cfg.transition # <<>>
                 /\ ValidProvider(cfg)
                 /\ out.cmd = "commit" => staged \/ unstaged
    IN  IF next = "off" \/ ~valid \/ ~AllCallsOk(out) \/ out.warn
        THEN [phase |-> "off", ticket |-> <<>>, summary |-> <<>>]
        ELSE IF out.err # "" \/ out.already
        THEN [phase |-> "broken", ticket |-> run.ticket, summary |-> run.summary]
        ELSE IF out.cmd = "start"
        THEN [phase |-> next, ticket |-> out.ticket, summary |-> out.summary]
        ELSE [phase |-> next, ticket |-> run.ticket, summary |-> run.summary]

RunOff == [phase |-> "off", ticket |-> <<>>, summary |-> <<>>]

\* the bounds of the model: what a command may leave behind
Within(w) ==
    Cardinality(w.branches \ {Main}) + Len(w.log) + Len(w.requests)
        <= MaxEffects

Apply(h) ==
    /\ Within(h.w)
    /\ head' = h.w.head
    /\ branches' = h.w.branches
    /\ staged' = h.w.staged
    /\ unstaged' = h.w.unstaged
    /\ log' = h.w.log
    /\ remote' = h.w.remote
    /\ transitions' = h.w.transitions
    /\ requests' = h.w.requests
    /\ last' = h.out
    /\ run' = RunAfter(h.out)
    /\ UNCHANGED <<fn, cfg, tracker>>

FlowInit ==
    /\ cfg \in Configs
    /\ head = Main
    /\ branches = {Main}
    /\ staged = FALSE
    /\ unstaged = FALSE
    /\ log = <<>>
    /\ remote = {}
    /\ transitions = <<>>
    /\ requests = <<>>
    /\ tracker \in TicketSummaries
    /\ last = Idle
    /\ run = [phase |-> "fresh", ticket |-> <<>>, summary |-> <<>>]

Init ==
    /\ fn = NoCall
    /\ FlowInit

\* devflow start <ticket-id>
Start ==
    \E ticketID \in TicketArgs, o \in StartOracles :
        \E h \in {HandleStart(World, cfg, ticketID, tracker, o)} : Apply(h)

\* devflow commit <message>
Commit ==
    \E message \in Messages, o \in CommitOracles :
        \E h \in {HandleCommit(World, cfg, message, o)} : Apply(h)

\* devflow done
Done ==
    \E o \in DoneOracles :
        \E h \in {HandleDone(World, cfg, tracker, o)} : Apply(h)

\* the user edits a file of a clean working tree
Edit ==
    /\ ~unstaged /\ ~staged
    /\ unstaged' = TRUE
    /\ last' = Idle
    /\ run' = IF run.phase = "started" THEN run ELSE RunOff
    /\ UNCHANGED <<fn, cfg, head, branches, staged, log, remote, transitions,
                   requests, tracker>>

\* the user runs git add
Stage ==
    /\ unstaged
    /\ staged' = TRUE
    /\ unstaged' = FALSE
    /\ last' = Idle
    /\ run' = IF run.phase = "started" THEN run ELSE RunOff
    /\ UNCHANGED <<fn, cfg, head, branches, log, remote, transitions, requests,
                   tracker>>

\* the user checks out another local branch, or a commit (detached HEAD)
Checkout ==
    /\ \E b \in (branches \cup {Detached}) \ {head} : head' = b
    /\ last' = Idle
    /\ run' = RunOff
    /\ UNCHANGED <<fn, cfg, branches, staged, unstaged, log, remote,
                   transitions, requests, tracker>>

Next == Start \/ Commit \/ Done \/ Edit \/ Stage \/ Checkout

Spec == Init /\ [][Next]_vars

----------------------------------------------------------------------------
(* The pure functions of internal/utils/branch.go, applied to bounded      *)
(* inputs                                                                  *)

\* the longest summary enumerated character by character
MaxSummaryLen == 3
\* the longest branch name given to ExtractTicketID character by character
MaxBranchLen == 4

SeqsUpTo(S, n) == UNION { [1..k -> S] : k \in 0..n }

\* letters of both cases, a digit, separators, characters that are stripped
\* (a tab among them), and a letter of two bytes
SummaryChars == {"a", "B", "7", " ", ":", "-", "/", "\t", "é"}

Summaries == SeqsUpTo(SummaryChars, MaxSummaryLen)

\* the most words of a summary built from words
MaxSummaryWords == 6

\* a word that is kept, a one-letter word of two bytes, a word that cleans
\* to one letter
SummaryWords == { <<"a","b">>, <<"é">>, <<"x","!">> }

\* summaries of up to MaxSummaryWords words with single spaces between
WordSummaries ==
    { Join(ws, <<" ">>) : ws \in SeqsUpTo(SummaryWords, MaxSummaryWords) }

\* branch prefixes: unset, one segment, two segments
Prefixes == { <<>>, <<"f","i","x">>, <<"a","/","b">> }

\* ticket IDs of the form ALPHA-DIGITS
TicketIDs ==
    { l \o <<"-">> \o d : l \in { <<"A">>, <<"a","B">> },
                          d \in { <<"1">>, <<"0","7">> } }

BranchChars == {"f", "/", "A", "-", "1"}

BranchNames == SeqsUpTo(BranchChars, MaxBranchLen)

\* the branch names of TestExtractTicketID, and one with a third
\* sub-segment
BranchExamples ==
    { <<"m","a","i","n">>,
      <<"f","e","a","t","/","W","A","B","-","3","8","4","8","/",
        "i","m","p","l","e","m","e","n","t","_","a","t","t","e","m","p","t","s",
        "_","d","o","c","_","l","o","g","i","c">>,
      <<"f","e","a","t","/","W","A","B","-","3","8","4","8","-",
        "e","x","t","r","a","/","x">> }

PureInit ==
    /\ fn = NoCall
    /\ cfg = NoConfig
    /\ head = Main
    /\ branches = {Main}
    /\ staged = FALSE
    /\ unstaged = FALSE
    /\ log = <<>>
    /\ remote = {}
    /\ transitions = <<>>
    /\ requests = <<>>
    /\ tracker = <<>>
    /\ last = Idle
    /\ run = RunOff

CallFormatBranchName ==
    /\ fn = NoCall
    /\ \E p \in Prefixes, id \in TicketIDs,
          s \in Summaries \cup WordSummaries :
           fn' = [op |-> "FormatBranchName", prefix |-> p, ticketID |-> id,
                  summary |-> s, out |-> FormatBranchName(p, id, s)]
    /\ UNCHANGED flowVars

CallExtractTicketID ==
    /\ fn = NoCall
    /\ \E b \in BranchNames \cup BranchExamples :
           fn' = [op |-> "ExtractTicketID", branch |-> b,
                  out |-> ExtractTicketID(b)]
    /\ UNCHANGED flowVars

NextBranch == CallFormatBranchName \/ CallExtractTicketID

SpecBranch == PureInit /\ [][NextBranch]_vars

----------------------------------------------------------------------------
(* Properties                                                              *)

\* C1: round trip of the correlation key: for every prefix, every ticket ID
\* of the form ALPHA-DIGITS and every summary, ExtractTicketID of the
\* branch name FormatBranchName built succeeds and returns the ticket ID.
C1_RoundTrip ==
    fn.op = "FormatBranchName" =>
        ExtractTicketID(fn.out) = [ok |-> TRUE, id |-> fn.ticketID]

IsPrefix(a, b) == Len(a) <= Len(b) /\ a = SubSeq(b, 1, Len(a))

\* the tokens of the slug of a branch name built from prefix and ticket ID
SlugTokens(out, prefix, ticketID) ==
    LET base == prefix \o <<"/">> \o ticketID
    IN  IF Len(out) <= Len(base) + 1 THEN <<>>
        ELSE Split(SubSeq(out, Len(base) + 2, Len(out)), "_")

\* C13: for every input FormatBranchName returns prefix/ticketID, alone or
\* followed by "/" and a slug of at most 5 tokens joined by "_", each token
\* at least 2 characters long and made of lower-case letters and digits
\* only.
C13_SlugShape ==
    fn.op = "FormatBranchName" =>
        LET base == fn.prefix \o <<"/">> \o fn.ticketID
            tokens == SlugTokens(fn.out, fn.prefix, fn.ticketID)
        IN  /\ IsPrefix(base, fn.out)
            /\ fn.out # base => Len(fn.out) > Len(base) + 1
                                /\ fn.out[Len(base) + 1] = "/"
            /\ Len(tokens) <= 5
            /\ \A i \in DOMAIN tokens :
                   /\ Len(tokens[i]) >= 2
                   /\ \A j \in DOMAIN tokens[i] :
                          tokens[i][j] \in LowerSet \cup Digits

\* the reference algorithm for the slug: split on whitespace and on the
\* listed characters
RefSeparators == {" ", "\t", "\n", "\r", ":", "!", "?", ",", ";", "."}

\* the tokens between separators, each with its letters and digits only
RECURSIVE RefTokens(_, _)
RefTokens(s, cur) ==
    IF s = <<>> THEN <<cur>>
    ELSE IF Head(s) \in RefSeparators THEN <<cur>> \o RefTokens(Tail(s), <<>>)
    ELSE IF Head(s) \in UpperSet \cup LowerSet \cup Digits
         THEN RefTokens(Tail(s), Append(cur, Head(s)))
    ELSE RefTokens(Tail(s), cur)

RefLongEnough(token) == Len(token) > 1

RefSlug(summary) ==
    LET survivors == SelectSeq(RefTokens(ToLower(summary), <<>>), RefLongEnough)
        kept == SubSeq(survivors, 1, IF Len(survivors) < 5 THEN Len(survivors)
                                      ELSE 5)
    IN  Join(kept, <<"_">>)

RefFormatBranchName(prefix, ticketID, summary) ==
    IF RefSlug(summary) = <<>> THEN prefix \o <<"/">> \o ticketID
    ELSE prefix \o <<"/">> \o ticketID \o <<"/">> \o RefSlug(summary)

\* C14: for every prefix, ticket ID and summary FormatBranchName returns
\* what the reference algorithm returns: lower-case, split on whitespace
\* and on " :!?,;.", keep letters and digits, drop tokens of length <= 1,
\* keep the first 5, join with "_" behind prefix/ticketID, and
\* prefix/ticketID alone when no token is left.
C14_Reference ==
    fn.op = "FormatBranchName" =>
        fn.out = RefFormatBranchName(fn.prefix, fn.ticketID, fn.summary)

\* the positions of character c in s
Positions(s, c) == {i \in DOMAIN s : s[i] = c}

Least(S) == CHOOSE i \in S : \A j \in S : i <= j

\* the second of the segments of a branch name with at least one "/"
SecondSegment(b) ==
    LET first == Least(Positions(b, "/"))
        later == {i \in Positions(b, "/") : i > first}
        stop == IF later = {} THEN Len(b) + 1 ELSE Least(later)
    IN  SubSeq(b, first + 1, stop - 1)

\* a segment with a "-" up to its second "-": its first two sub-segments
FirstTwo(seg) ==
    LET first == Least(Positions(seg, "-"))
        later == {i \in Positions(seg, "-") : i > first}
        stop == IF later = {} THEN Len(seg) + 1 ELSE Least(later)
    IN  SubSeq(seg, 1, stop - 1)

\* C15: ExtractTicketID fails when the branch name has no "/" (fewer than
\* two segments) or its second segment has no "-"; otherwise it succeeds
\* and returns the first two "-"-separated parts of the second segment,
\* joined by "-".
C15_Extract ==
    fn.op = "ExtractTicketID" =>
        IF Positions(fn.branch, "/") = {} THEN ~fn.out.ok
        ELSE IF Positions(SecondSegment(fn.branch), "-") = {} THEN ~fn.out.ok
        ELSE /\ fn.out.ok
             /\ fn.out.id = FirstTwo(SecondSegment(fn.branch))

\* "feat/WAB-3848-extra/x" yields "WAB-3848"
C15_Witness ==
    /\ fn.op = "ExtractTicketID"
    /\ Len(fn.branch) = 21 /\ fn.branch[14] = "-"
    /\ fn.out = [ok |-> TRUE, id |-> <<"W","A","B","-","3","8","4","8">>]

----------------------------------------------------------------------------
(* Properties of the workflows                                             *)

worldVars == <<head, branches, staged, unstaged, log, remote, transitions,
               requests>>

\* the gateway calls of an invocation, in order
CallOps(out) == [i \in DOMAIN out.calls |-> out.calls[i].op]

CalledOp(out, op) == \E i \in DOMAIN out.calls : out.calls[i].op = op

FailedOp(out, op) ==
    \E i \in DOMAIN out.calls : out.calls[i].op = op /\ ~out.calls[i].ok

\* the invocation read the current branch
ReadBranch(out) == out.opened /\ out.calls[1].ok

\* C2: whenever the current branch, read by start(T), contains T as a
\* case-insensitive substring, start returns success having made no call
\* but CurrentBranch: no GetTicket, CreateBranch or UpdateStatus, and
\* nothing of the working tree, the remote, the tracker or the code host
\* changes; in particular when start(T) directly follows a successful
\* start(T).
C2_StartGuard ==
    [][ /\ ( /\ last'.cmd = "start"
             /\ ReadBranch(last')
             /\ Contains(ToUpper(head), ToUpper(last'.ticket))
             => /\ last'.err = ""
                /\ CallOps(last') = <<"CurrentBranch">>
                /\ UNCHANGED worldVars )
        /\ ( /\ last.cmd = "start" /\ last.err = "" /\ ~last.already
             /\ last'.cmd = "start" /\ last'.ticket = last.ticket
             /\ ReadBranch(last')
             => /\ last'.err = ""
                /\ CallOps(last') = <<"CurrentBranch">>
                /\ UNCHANGED worldVars )
      ]_vars

\* start short-circuited on a branch that holds the ticket ID in another case
C2_Witness ==
    /\ last.cmd = "start" /\ last.already
    /\ ~Contains(last.branch, last.ticket)

\* C3: the calls start makes after reading the current branch are a prefix
\* of GetTicket, CreateBranch, UpdateStatus; a failed GetTicket is returned
\* and is the last call; a failed CreateBranch is returned and is the last
\* call.
C3_StartGates ==
    last.cmd = "start" =>
        LET ops == CallOps(last)
            after == IF ops = <<>> THEN <<>> ELSE Tail(ops)
        IN  /\ ops # <<>> => ops[1] = "CurrentBranch"
            /\ IsPrefix(after, <<"GetTicket", "CreateBranch", "UpdateStatus">>)
            /\ FailedOp(last, "GetTicket") =>
                   last.err # "" /\ after = <<"GetTicket">>
            /\ FailedOp(last, "CreateBranch") =>
                   last.err # "" /\ after = <<"GetTicket", "CreateBranch">>

\* start failed at CreateBranch because the branch exists
C3_Witness ==
    /\ last.cmd = "start" /\ FailedOp(last, "CreateBranch")
    /\ last.branch \in branches

\* C4: a failed transition of start leaves start successful, on the branch
\* it created, with a warning; a warning is given only then; the transition
\* is attempted exactly when one is configured and the branch was created.
C4_StartSoft ==
    last.cmd = "start" =>
        /\ FailedOp(last, "UpdateStatus") =>
               /\ last.err = "" /\ last.warn
               /\ head = last.branch /\ last.branch \in branches
        /\ last.warn => FailedOp(last, "UpdateStatus")
        /\ CalledOp(last, "UpdateStatus") <=>
               /\ cfg # NoConfig /\ cfg.transition # <<>>
               /\ CalledOp(last, "CreateBranch")
               /\ ~FailedOp(last, "CreateBranch")

\* start succeeded although its transition failed
C4_Witness ==
    last.cmd = "start" /\ FailedOp(last, "UpdateStatus") /\ last.err = ""

\* C5: done on a tree with staged or unstaged changes returns an error,
\* the "uncommitted changes" error when git status itself worked, and calls
\* nothing after IsClean.
C5_DoneDirty ==
    last.cmd = "done" /\ (staged \/ unstaged) =>
        /\ last.err # ""
        /\ CallOps(last) \in { <<>>, <<"IsClean">> }
        /\ (last.calls # <<>> /\ last.calls[1].ok) => last.err = "uncommitted"

\* done refused a tree whose changes are all staged
C5_Witness ==
    last.cmd = "done" /\ last.err = "uncommitted" /\ staged /\ ~unstaged

DoneOrder == <<"IsClean", "CurrentBranch", "Push", "GetTicket",
               "CreateRequest", "UpdateStatus">>

\* one of the first five calls of done failed
HardCallFailed(out) ==
    \E i \in DOMAIN out.calls :
        out.calls[i].op # "UpdateStatus" /\ ~out.calls[i].ok

\* the calls of done are a prefix of the pipeline, each made only after
\* every earlier one succeeded
DonePipeline(out) ==
    /\ IsPrefix(CallOps(out), DoneOrder)
    /\ \A i \in DOMAIN out.calls : \A j \in 1..(i - 1) : out.calls[j].ok

\* a gate of done that is no gateway call: the configuration, the
\* repository, the state of the tree, the ticket ID of the branch, the
\* provider selection
DoneGateClosed ==
    \/ cfg = NoConfig
    \/ ~last.opened
    \/ staged \/ unstaged
    \/ ~ExtractTicketID(head).ok
    \/ ~ValidProvider(cfg)

\* C6: in every done invocation the gateway calls are a prefix of IsClean,
\* CurrentBranch, Push, GetTicket, create request, UpdateStatus, each made
\* at most once and only if every earlier call succeeded; done returns an
\* error exactly when one of the first five calls fails or a gate that is
\* no gateway call is closed: the configuration is missing, the directory
\* is no repository, the tree is dirty, the branch holds no ticket ID, or
\* the provider is neither gitlab nor github with owner and repo.
C6_DoneOrder ==
    last.cmd = "done" =>
        /\ DonePipeline(last)
        /\ last.err # "" <=> (HardCallFailed(last) \/ DoneGateClosed)

\* done stopped at a failed GetTicket after a successful push
C6_Witness ==
    /\ last.cmd = "done" /\ FailedOp(last, "GetTicket")
    /\ last.err # "" /\ last.branch \in remote

\* C6 as stated: done returns an error exactly when one of the first five
\* calls fails.
C6_Original ==
    last.cmd = "done" =>
        /\ DonePipeline(last)
        /\ last.err # "" <=> HardCallFailed(last)

\* done with every gateway succeeding
AllOk == [c \in {"repo", "status", "current", "git", "fetch", "host",
                 "update"} |-> TRUE]

\* C7: when the create request of done fails, done returns that error, the
\* branch is on the remote, nothing was recorded by the code host or the
\* tracker, no transition is attempted, and a done run from that state
\* with every gateway succeeding pushes again and creates the request.
C7_CreateFailure ==
    /\ [](last.cmd = "done" /\ FailedOp(last, "CreateRequest") =>
            /\ last.err = "provider"
            /\ last.branch \in remote
            /\ ~CalledOp(last, "UpdateStatus")
            /\ LET h == HandleDone(World, cfg, tracker, AllOk)
               IN  /\ h.out.err = ""
                   /\ CalledOp(h.out, "Push") /\ AllCallsOk(h.out)
                   /\ h.w.remote = remote
                   /\ Len(h.w.requests) = Len(requests) + 1
                   /\ h.w.requests[Len(h.w.requests)].source = last.branch)
    /\ [][last'.cmd = "done" /\ FailedOp(last', "CreateRequest") =>
            /\ requests' = requests /\ transitions' = transitions
            /\ remote' = remote \cup {head}]_vars

\* the create request failed on a branch that was not pushed before
C7_Witness ==
    /\ last.cmd = "done" /\ FailedOp(last, "CreateRequest")
    /\ requests = <<>> /\ remote = {last.branch}

\* C8: after a successful create request, a failed transition to In Review
\* leaves done successful: it reports the URL of the request it created,
\* and the failure is a warning; a warning is given only then.
C8_DoneSoft ==
    last.cmd = "done" =>
        /\ FailedOp(last, "UpdateStatus") =>
               /\ last.err = "" /\ last.url /\ last.warn
               /\ requests # <<>>
               /\ requests[Len(requests)].source = last.branch
        /\ last.warn => FailedOp(last, "UpdateStatus")

\* done succeeded although its transition failed
C8_Witness ==
    /\ last.cmd = "done" /\ FailedOp(last, "UpdateStatus")
    /\ last.err = "" /\ transitions = <<>>

\* the branch prefix start uses
RunPrefix == IF cfg.prefix = <<>> THEN Feat ELSE cfg.prefix

\* C9: from a clean repository on its primary branch, with a default
\* transition configured and every gateway succeeding, no command of
\* start(T); commit(m); done returns an error, and after done the branch
\* FormatBranchName(prefix, T, summary) exists, holds one commit whose
\* message contains T, is the only branch pushed, the code host holds one
\* request, and the tracker holds the configured transition followed by
\* In Review.
C9_EndToEnd ==
    /\ run.phase # "broken"
    /\ run.phase = "finished" =>
           LET b == FormatBranchName(RunPrefix, run.ticket, run.summary)
           IN  /\ b \in branches /\ head = b
               /\ Len(log) = 1 /\ log[1].branch = b
               /\ Contains(log[1].message, run.ticket)
               /\ remote = {b}
               /\ Len(requests) = 1 /\ requests[1].source = b
               /\ transitions =
                      << [ticket |-> run.ticket, name |-> cfg.transition],
                         [ticket |-> run.ticket, name |-> InReview] >>

\* C10: commit(m) on a branch that encodes T stages every change and adds
\* one commit whose message is m, a blank line, "T: {url}/browse/T"; it
\* succeeds when every git call succeeds, and otherwise returns an error
\* and adds no commit; there is no outcome with a warning.
C10_Commit ==
    [][ last'.cmd = "commit" =>
          LET t == ExtractTicketID(head)
              trailer == t.id \o <<":", " ">> \o cfg.url
                              \o <<"/","b","r","o","w","s","e","/">> \o t.id
          IN  /\ ~last'.warn
              /\ UNCHANGED <<head, branches, remote, transitions, requests>>
              /\ last'.err = "" =>
                     /\ t.ok
                     /\ log' = Append(log, [branch |-> head,
                                   message |-> last'.arg \o <<"\n", "\n">>
                                                   \o trailer])
                     /\ ~staged' /\ ~unstaged'
              /\ last'.err # "" => log' = log
              /\ last'.err = "" <=>
                     /\ last'.opened /\ AllCallsOk(last') /\ t.ok
      ]_vars

\* a commit was made from a tree with unstaged changes only
C10_Witness ==
    /\ last.cmd = "commit" /\ last.err = ""
    /\ log # <<>> /\ log[Len(log)].message = last.message
    /\ ~staged /\ ~unstaged

\* the current branch gives no ticket ID: HEAD is detached or
\* ExtractTicketID fails on the branch name
NoTicketBranch == head = Detached \/ ~ExtractTicketID(head).ok

\* C11: on a branch that encodes no ticket ID, or with a detached HEAD,
\* commit returns an error and neither stages nor commits anything, and
\* done returns an error having called nothing after CurrentBranch: no
\* push, no ticket fetch, no create request, no transition.
C11_NoTicket ==
    [][ /\ (last'.cmd = "commit" /\ NoTicketBranch) =>
              /\ last'.err # ""
              /\ ~CalledOp(last', "Commit")
              /\ UNCHANGED worldVars
        /\ (last'.cmd = "done" /\ NoTicketBranch) =>
              /\ last'.err # ""
              /\ IsPrefix(CallOps(last'), <<"IsClean", "CurrentBranch">>)
              /\ UNCHANGED worldVars
      ]_vars

\* commit refused a changed tree on main after reading the branch
C11_Witness ==
    /\ last.cmd = "commit" /\ last.err = "correlation"
    /\ head = Main /\ unstaged /\ ~staged /\ log = <<>>

\* C12: every request done creates, for github and for gitlab, is appended
\* once, with source = the current branch, target = "main", title =
\* "T: summary" and description = "Resolves T\n\nJira: {url}/browse/T",
\* T being the ticket ID extracted from the branch and summary the one
\* fetched by this invocation; done creates a request exactly when its
\* create call succeeds.
C12_RequestFields ==
    [][ last'.cmd = "done" =>
          LET t == ExtractTicketID(head).id
              created == CalledOp(last', "CreateRequest")
                             /\ ~FailedOp(last', "CreateRequest")
          IN  /\ ~created => requests' = requests
              /\ created =>
                   /\ Len(requests') = Len(requests) + 1
                   /\ SubSeq(requests', 1, Len(requests)) = requests
                   /\ LET r == requests'[Len(requests')]
                      IN  /\ r.source = head
                          /\ r.target = <<"m","a","i","n">>
                          /\ r.title = t \o <<":"," ">> \o last'.summary
                          /\ last'.summary = tracker
                          /\ r.description =
                                 <<"R","e","s","o","l","v","e","s"," ">> \o t
                                 \o <<"\n","\n","J","i","r","a",":"," ">>
                                 \o cfg.url
                                 \o <<"/","b","r","o","w","s","e","/">> \o t
                          /\ r.provider \in {GitHub, GitLab}
      ]_vars

\* done created a pull request on github from a ticket branch
C12_Witness ==
    /\ last.cmd = "done" /\ last.err = "" /\ requests # <<>>
    /\ requests[Len(requests)].provider = GitHub
    /\ requests[Len(requests)].source = head

----------------------------------------------------------------------------
(* handleList and handleSearch                                             *)

\* strings.TrimSpace
IsSpace(c) == c \in {" ", "\t", "\n", "\r"}

RECURSIVE TrimLeft(_)
TrimLeft(s) ==
    IF s # <<>> /\ IsSpace(Head(s)) THEN TrimLeft(Tail(s)) ELSE s

RECURSIVE TrimRight(_)
TrimRight(s) ==
    IF s # <<>> /\ IsSpace(s[Len(s)]) THEN TrimRight(SubSeq(s, 1, Len(s) - 1))
    ELSE s

TrimSpace(s) == TrimRight(TrimLeft(s))

\* escapeJQL: strings.ReplaceAll(value, "\"", "\\\"")
RECURSIVE EscapeJQL(_)
EscapeJQL(value) ==
    IF value = <<>> THEN <<>>
    ELSE IF Head(value) = "\"" THEN <<"\\", "\"">> \o EscapeJQL(Tail(value))
    ELSE <<Head(value)>> \o EscapeJQL(Tail(value))

AssigneeMe == <<"a","s","s","i","g","n","e","e"," ","="," ","c","u","r","r","e","n","t","U","s","e","r","(",")">>
AndSep == <<" ","A","N","D"," ">>
\* mutant: the current user is asked for with "Me"
Me_Capital == <<"M","e">>

\* the assignee value that stands for the current user
Me == <<"m","e">>

\* the result ceiling of list, and the limit search falls back to
ListLimit == 50
DefaultLimit == 10

\* fmt.Sprintf("project = %s", project)
ProjectClause(project) == <<"p","r","o","j","e","c","t"," ","="," ">> \o project

\* fmt.Sprintf("status = \"%s\"", status)
StatusClause(status) == <<"s","t","a","t","u","s"," ","="," ","\"">> \o status \o <<"\"">>

\* fmt.Sprintf("assignee = \"%s\"", assignee)
AssigneeClause(assignee) == <<"a","s","s","i","g","n","e","e"," ","="," ","\"">> \o assignee \o <<"\"">>

\* fmt.Sprintf("(summary ~ \"%s\" OR description ~ \"%s\")", escaped, escaped)
TextClause(query) ==
    <<"(","s","u","m","m","a","r","y"," ","~"," ","\"">> \o EscapeJQL(query) \o <<"\""," ","O","R"," ","d","e","s","c","r","i","p","t","i","o","n"," ","~"," ","\"">>
        \o EscapeJQL(query) \o <<"\"", ")">>

\* mutant: the configured project key is not used
QueryProject_NoDefault(c, projectFilter) == TrimSpace(projectFilter)

\* the project of a query: the trimmed filter, else the configured key
QueryProject(c, projectFilter) ==
    IF TrimSpace(projectFilter) = <<>> THEN c.project
    ELSE TrimSpace(projectFilter)

\* jqlParts of handleList
ListParts(c, statusFilter, projectFilter) ==
    LET project == QueryProject(c, projectFilter)
    IN  <<AssigneeMe>>
        \o (IF project # <<>> THEN <<ProjectClause(project)>> ELSE <<>>)
        \o (IF statusFilter # <<>> THEN <<StatusClause(statusFilter)>> ELSE <<>>)

\* mutant: the assignee clause is put before the project clause
SearchParts_AssigneeFirst(c, opts) ==
    LET project == QueryProject(c, opts.Project)
    IN  <<TextClause(opts.Query)>>
        \o (IF opts.Assignee = <<>> THEN <<>>
            ELSE IF opts.Assignee = Me THEN <<AssigneeMe>>
            ELSE <<AssigneeClause(opts.Assignee)>>)
        \o (IF project # <<>> THEN <<ProjectClause(project)>> ELSE <<>>)
        \o (IF opts.Status # <<>> THEN <<StatusClause(opts.Status)>> ELSE <<>>)

\* jqlParts of handleSearch
SearchParts(c, opts) ==
    LET project == QueryProject(c, opts.Project)
    IN  <<TextClause(opts.Query)>>
        \o (IF project # <<>> THEN <<ProjectClause(project)>> ELSE <<>>)
        \o (IF opts.Assignee = <<>> THEN <<>>
            ELSE IF opts.Assignee = Me THEN <<AssigneeMe>>
            ELSE <<AssigneeClause(opts.Assignee)>>)
        \o (IF opts.Status # <<>> THEN <<StatusClause(opts.Status)>> ELSE <<>>)

\* what a query command leaves to observe: the query it sent, the ceiling,
\* the number of tickets returned, the error, whether it said that more
\* results may exist, and whether it went on to start
NewQuery(op, args) ==
    [op |-> op, args |-> args, sent |-> FALSE, parts |-> <<>>, jql |-> <<>>,
     limit |-> 0, returned |-> 0, err |-> "", more |-> FALSE,
     started |-> FALSE]

\* handleList; o.ok and o.n are the outcome of SearchWithJQL
HandleList(c, statusFilter, projectFilter, jsonOutput, o) ==
    LET args == [status |-> statusFilter, project |-> projectFilter,
                 json |-> jsonOutput]
        f == NewQuery("list", args)
    IN  IF ~LoadSettings(c).ok THEN [f EXCEPT !.err = "config"]
        ELSE LET parts == ListParts(c, statusFilter, projectFilter)
                 f1 == [f EXCEPT !.sent = TRUE, !.parts = parts,
                                 !.jql = Join(parts, AndSep),
                                 !.limit = ListLimit]
             IN  IF ~o.ok THEN [f1 EXCEPT !.err = "tracker"]
                 ELSE [f1 EXCEPT !.returned = o.n]

\* promptSelection: the line read is empty, no number in range, or a number
PromptSelection(sel) ==
    IF sel = "eof" \/ sel = "invalid" THEN [ok |-> FALSE, idx |-> -1]
    ELSE IF sel = "none" THEN [ok |-> TRUE, idx |-> -1]
    ELSE [ok |-> TRUE, idx |-> 0]

\* handleSearch; in interactive mode the ticket selected is started
HandleSearch(w, c, opts, o, sel, key, so) ==
    LET f == NewQuery("search", opts)
        idle == [w |-> w, out |-> Idle]
    IN  IF ~LoadSettings(c).ok THEN [f |-> [f EXCEPT !.err = "config"], h |-> idle]
        ELSE LET parts == SearchParts(c, opts)
                 f1 == [f EXCEPT !.sent = TRUE, !.parts = parts,
                                 !.jql = Join(parts, AndSep),
                                 !.limit = opts.Limit]
             IN  IF ~o.ok THEN [f |-> [f1 EXCEPT !.err = "tracker"], h |-> idle]
                 ELSE IF o.n = 0 THEN [f |-> f1, h |-> idle]
                 ELSE LET f2 == [f1 EXCEPT !.returned = o.n,
                                           !.more = (o.n = opts.Limit)]
                          p == PromptSelection(sel)
                      IN  IF ~opts.Interactive THEN [f |-> f2, h |-> idle]
                          ELSE IF ~p.ok
                          THEN [f |-> [f2 EXCEPT !.err = "selection"], h |-> idle]
                          ELSE IF p.idx < 0 THEN [f |-> f2, h |-> idle]
                          ELSE LET h == HandleStart(w, c, key, tracker, so)
                               IN  [f |-> [f2 EXCEPT !.started = TRUE,
                                                     !.err = h.out.err],
                                    h |-> h]

\* the longest free text of a search
MaxQueryLen == 2
\* the largest --limit given to search
MaxLimit == 2

QueryChars == {"a", "\"", "\\"}

Queries == SeqsUpTo(QueryChars, MaxQueryLen)

Assignees == { <<>>, Me, <<"M","e">> }

StatusFilters == { <<>>, <<"D","o","n","e">> }

ProjectFilters == { <<>>, <<" ">>, <<" ","P"," ">> }

\* the --limit flag: unset or not positive, or a ceiling
RawLimits == (-1)..MaxLimit

\* settings with a default project key, or without one
QuerySettings(project) ==
    [url |-> JiraURL, prefix |-> <<>>, transition |-> InProgress,
     provider |-> GitLab, owner |-> <<>>, repo |-> <<>>, project |-> project]

QueryConfigs == { NoConfig, QuerySettings(<<>>), QuerySettings(<<"K">>) }

\* the tickets SearchWithJQL returns under a ceiling: none, one, one less
\* than the ceiling, as many as the ceiling
Returned(limit) == {0, 1, limit - 1, limit} \cap (0..limit)

SearchOutcomes(limit) ==
    { [ok |-> FALSE, n |-> 0] } \cup { [ok |-> TRUE, n |-> n] : n \in Returned(limit) }

Selections == {"eof", "invalid", "none", "first"}

QueryInit ==
    /\ fn = NoCall
    /\ cfg \in QueryConfigs
    /\ head = Main
    /\ branches = {Main}
    /\ staged = FALSE
    /\ unstaged = FALSE
    /\ log = <<>>
    /\ remote = {}
    /\ transitions = <<>>
    /\ requests = <<>>
    /\ tracker \in TicketSummaries
    /\ last = Idle
    /\ run = RunOff

List ==
    /\ fn = NoCall
    /\ \E s \in StatusFilters, p \in ProjectFilters, j \in BOOLEAN,
          o \in SearchOutcomes(ListLimit) :
           fn' = HandleList(cfg, s, p, j, o)
    /\ UNCHANGED flowVars

\* searchCmd: a limit that is not positive becomes 10
Search ==
    /\ fn = NoCall
    /\ \E q \in Queries, a \in Assignees, s \in StatusFilters,
          p \in ProjectFilters, raw \in RawLimits, i \in BOOLEAN :
         LET limit == IF raw <= 0 THEN DefaultLimit ELSE raw
             opts == [Query |-> q, Assignee |-> a, Status |-> s, Project |-> p,
                      Limit |-> limit, Interactive |-> i]
         IN  \E o \in SearchOutcomes(limit),
                sel \in (IF i THEN Selections ELSE {"none"}),
                so \in (IF i THEN StartOracles ELSE {CHOOSE x \in StartOracles : TRUE}) :
               \E r \in {HandleSearch(World, cfg, opts, o, sel,
                                      <<"A","B","-","1">>, so)} :
                  /\ fn' = r.f
                  /\ head' = r.h.w.head
                  /\ branches' = r.h.w.branches
                  /\ transitions' = r.h.w.transitions
                  /\ last' = r.h.out
                  /\ UNCHANGED <<cfg, staged, unstaged, log, remote, requests,
                                 tracker, run>>

NextQuery == List \/ Search

SpecQuery == QueryInit /\ [][NextQuery]_vars

----------------------------------------------------------------------------
(* Properties of the queries                                               *)

\* a filter that is empty or made of white space
Blank(s) == \A i \in DOMAIN s : s[i] \in {" ", "\t", "\n", "\r"}

\* the project a query names, if any
NamedProject(filter) == IF Blank(filter) THEN cfg.project ELSE TrimSpace(filter)

\* C16: the query list sends is "assignee = currentUser()", followed by
\* " AND project = P" exactly when the project filter or, if that is blank,
\* the configured default project is non-empty, and by " AND status = "S""
\* exactly when a status filter S is given; it is never empty.
C16_ListQuery ==
    (fn.op = "list" /\ fn.sent) =>
        LET P == NamedProject(fn.args.project)
            S == fn.args.status
        IN  /\ fn.jql # <<>>
            /\ fn.jql =
                 <<"a","s","s","i","g","n","e","e"," ","="," ","c","u","r","r","e","n","t","U","s","e","r","(",")">>
                 \o (IF P # <<>>
                     THEN <<" ","A","N","D"," ","p","r","o","j","e","c","t"," ","="," ">> \o P
                     ELSE <<>>)
                 \o (IF S # <<>>
                     THEN <<" ","A","N","D"," ","s","t","a","t","u","s"," ","="," ","\"">> \o S \o <<"\"">>
                     ELSE <<>>)
            /\ Len(fn.parts) = 1 + (IF P # <<>> THEN 1 ELSE 0)
                                 + (IF S # <<>> THEN 1 ELSE 0)

\* list with a blank project filter fell back to the configured project
C16_Witness ==
    /\ fn.op = "list" /\ fn.sent /\ fn.args.project = <<" ">>
    /\ cfg.project = <<"K">> /\ fn.args.status = <<>>
    /\ fn.jql = <<"a","s","s","i","g","n","e","e"," ","="," ","c","u","r","r","e","n","t","U","s","e","r","(",")"," ","A","N","D"," ","p","r","o","j","e","c","t"," ","="," ","K">>

\* what a clause is about, read from its first characters
ClauseKind(part) ==
    IF IsPrefix(<<"a","s","s","i","g","n","e","e"," ","="," ">>, part) THEN "assignee"
    ELSE IF IsPrefix(<<"(","s","u","m","m","a","r","y"," ","~"," ">>, part) THEN "text"
    ELSE IF IsPrefix(<<"p","r","o","j","e","c","t"," ","="," ">>, part) THEN "project"
    ELSE IF IsPrefix(<<"s","t","a","t","u","s"," ","="," ">>, part) THEN "status"
    ELSE "other"

ClauseKinds(parts) == [i \in DOMAIN parts |-> ClauseKind(parts[i])]

\* the kinds are in the order given, each at most once, none else
InOrder(kinds, order) ==
    \E pick \in SUBSET (1..Len(order)) :
        kinds = SelectSeq(order, LAMBDA k : \E i \in pick : order[i] = k)

\* C17: the clauses of every query are in a fixed order: in list the
\* assignee clause, then project, then status; in search the free-text
\* clause, then project, then assignee, then status; the first of these is
\* always there, each of the others at most once.
C17_ClauseOrder ==
    fn.op \in {"list", "search"} /\ fn.sent =>
        LET kinds == ClauseKinds(fn.parts)
        IN  IF fn.op = "list"
            THEN /\ kinds[1] = "assignee"
                 /\ InOrder(kinds, <<"assignee", "project", "status">>)
            ELSE /\ kinds[1] = "text"
                 /\ InOrder(kinds, <<"text", "project", "assignee", "status">>)

\* a search with all four clauses
C17_Witness ==
    /\ fn.op = "search" /\ fn.sent
    /\ ClauseKinds(fn.parts) = <<"text", "project", "assignee", "status">>

\* C17 as stated: in list and in search the assignee clause and the
\* free-text clause come first, then the project clause, then the status
\* clause.
C17_Original ==
    fn.op \in {"list", "search"} /\ fn.sent =>
        LET kinds == ClauseKinds(fn.parts)
            Rank(k) == IF k \in {"assignee", "text"} THEN 1
                       ELSE IF k = "project" THEN 2 ELSE 3
        IN  \A i, j \in DOMAIN kinds : i < j => Rank(kinds[i]) <= Rank(kinds[j])

\* the assignee clauses of a query
AssigneeParts(parts) ==
    SelectSeq(parts, LAMBDA part : ClauseKind(part) = "assignee")

\* C18: in search the assignee filter "me" gives the one assignee clause
\* "assignee = currentUser()", not one with the literal "me"; any other
\* non-empty value N gives the one clause "assignee = "N""; an empty filter
\* gives no assignee clause.
C18_Assignee ==
    fn.op = "search" /\ fn.sent =>
        LET a == fn.args.Assignee
            got == AssigneeParts(fn.parts)
        IN  IF a = <<>> THEN got = <<>>
            ELSE IF a = <<"m","e">>
            THEN got = << <<"a","s","s","i","g","n","e","e"," ","="," ","c","u","r","r","e","n","t","U","s","e","r","(",")">> >>
            ELSE got = << <<"a","s","s","i","g","n","e","e"," ","="," ","\"">> \o a \o <<"\"">> >>

\* a search for the assignee "Me" names that literal
C18_Witness ==
    /\ fn.op = "search" /\ fn.sent /\ fn.args.Assignee = <<"M","e">>
    /\ AssigneeParts(fn.parts) = << <<"a","s","s","i","g","n","e","e"," ","="," ","\"","M","e","\"">> >>

\* the skeleton of a query: every quoted literal emptied, read as the
\* tracker reads it: inside a literal a backslash quotes the next
\* character and a bare double quote ends the literal; "open" is appended
\* when the query ends inside a literal
RECURSIVE Skeleton(_, _)
Skeleton(s, inside) ==
    IF s = <<>> THEN (IF inside THEN <<"open">> ELSE <<>>)
    ELSE IF ~inside
         THEN <<Head(s)>> \o Skeleton(Tail(s), Head(s) = "\"")
    ELSE IF Head(s) = "\\"
         THEN Skeleton(IF Len(s) = 1 THEN <<>> ELSE Tail(Tail(s)), TRUE)
    ELSE IF Head(s) = "\"" THEN <<"\"">> \o Skeleton(Tail(s), FALSE)
    ELSE Skeleton(Tail(s), TRUE)

\* C19: whatever the free text of a search, no character of it ends the
\* quoted literal it is put in: the query has the clause structure of the
\* same search with an empty free text.
C19_NoInjection ==
    fn.op = "search" /\ fn.sent =>
        Skeleton(fn.jql, FALSE) =
            Skeleton(Join(SearchParts(cfg, [fn.args EXCEPT !.Query = <<>>]),
                          AndSep), FALSE)

\* C20: every query of list and search carries a ceiling L >= 1 and gets at
\* most L tickets; when exactly L tickets are returned the command says
\* that more results may exist, and this is no error; when fewer are
\* returned it does not say so.
C20_Ceiling ==
    fn.op \in {"list", "search"} /\ fn.sent =>
        /\ fn.limit >= 1 /\ fn.returned <= fn.limit
        /\ fn.returned = fn.limit =>
               /\ fn.more
               /\ ~fn.started => fn.err \in {"", "selection"}
        /\ fn.returned < fn.limit => ~fn.more

----------------------------------------------------------------------------
(* internal/providers/gitlab: Client.CreateMergeRequest                    *)

\* url.PathEscape: a slash of the project path becomes %2F
RECURSIVE PathEscape(_)
PathEscape(path) ==
    IF path = <<>> THEN <<>>
    ELSE IF Head(path) = "/" THEN <<"%","2","F">> \o PathEscape(Tail(path))
    ELSE <<Head(path)>> \o PathEscape(Tail(path))

\* how one HTTP exchange ends: no response, a status outside 2xx, a body
\* that is no JSON, or a 2xx response with a JSON body
Exchanges == {"transport", "status", "json", "ok"}

\* GET {baseURL}/api/v4/projects/{escaped path}
LookupRequest(projectPath) ==
    [method |-> "GET", project |-> PathEscape(projectPath)]

\* POST {baseURL}/api/v4/projects/{id}/merge_requests with the payload
CreateRequest(projectID, sourceBranch, targetBranch, title, description) ==
    [method |-> "POST", project |-> projectID, source_branch |-> sourceBranch,
     target_branch |-> targetBranch, title |-> title,
     description |-> description, remove_source_branch |-> TRUE]

\* mutant: the ID of a project looked up before is taken from a cache
GetProjectID_Cached(http, ids, projectPath, lookup, id) ==
    IF projectPath \in DOMAIN ids
    THEN [http |-> http, ids |-> ids, ok |-> TRUE, id |-> ids[projectPath]]
    ELSE LET sent == Append(http, LookupRequest(projectPath))
         IN  IF lookup # "ok"
             THEN [http |-> sent, ids |-> ids, ok |-> FALSE, id |-> 0]
             ELSE [http |-> sent,
                   ids |-> [p \in DOMAIN ids \cup {projectPath} |->
                               IF p = projectPath THEN id ELSE ids[p]],
                   ok |-> TRUE, id |-> id]

\* Client.getProjectID: the client keeps nothing between calls
GetProjectID(http, ids, projectPath, lookup, id) ==
    LET sent == Append(http, LookupRequest(projectPath))
    IN  IF lookup # "ok" THEN [http |-> sent, ids |-> ids, ok |-> FALSE, id |-> 0]
        ELSE [http |-> sent, ids |-> ids, ok |-> TRUE, id |-> id]

\* the merge request URL of a successful create call
WebURL == <<"m","r","/","1">>

\* Client.CreateMergeRequest; o.lookup and o.create are how the two
\* exchanges end, o.id is the ID the server gives the project
CreateMergeRequest(g, projectPath, source, target, title, body, o) ==
    LET l == GetProjectID(g.http, g.ids, projectPath, o.lookup, o.id)
        args == [projectPath |-> projectPath, sourceBranch |-> source,
                 projectID |-> l.id]
    IN  IF ~l.ok
        THEN [op |-> "gitlab", http |-> l.http, ids |-> l.ids, args |-> args,
              url |-> <<>>, err |-> "lookup"]
        ELSE LET sent == Append(l.http,
                                CreateRequest(l.id, source, target, title,
                                              body))
             IN  IF o.create # "ok"
                 THEN [op |-> "gitlab", http |-> sent, ids |-> l.ids,
                       args |-> args, url |-> <<>>, err |-> "create"]
                 ELSE [op |-> "gitlab", http |-> sent, ids |-> l.ids,
                       args |-> args, url |-> WebURL, err |-> ""]

\* the most HTTP requests of a run
MaxHTTP == 4

ProjectPaths == { <<"r","e","p","o">>, <<"o","/","r">> }

ProjectIDs == {7, 123}

SourceBranches == { <<"f","/","A","-","1">> }

GitLabOracles ==
    [lookup : Exchanges, create : Exchanges, id : ProjectIDs]

\* the flow is not running
FlowIdle ==
    /\ cfg = NoConfig
    /\ head = Main
    /\ branches = {Main}
    /\ staged = FALSE
    /\ unstaged = FALSE
    /\ log = <<>>
    /\ remote = {}
    /\ transitions = <<>>
    /\ requests = <<>>
    /\ tracker = <<>>
    /\ last = Idle
    /\ run = RunOff

\* gitlab.NewClient: nothing sent yet
GitLabInit ==
    /\ fn = [op |-> "gitlab", http |-> <<>>, ids |-> <<>>,
             args |-> [projectPath |-> <<>>, sourceBranch |-> <<>>,
                       projectID |-> 0],
             url |-> <<>>, err |-> ""]
    /\ FlowIdle

CallCreateMergeRequest ==
    /\ Len(fn.http) + 2 <= MaxHTTP
    /\ \E p \in ProjectPaths, b \in SourceBranches, o \in GitLabOracles :
           fn' = CreateMergeRequest(fn, p, b, Main, <<"t">>, <<"d">>, o)
    /\ UNCHANGED flowVars

NextGitLab == CallCreateMergeRequest

SpecGitLab == GitLabInit /\ [][NextGitLab]_vars

\* the requests an invocation added
Added == SubSeq(fn'.http, Len(fn.http) + 1, Len(fn'.http))

\* C21: every CreateMergeRequest invocation first sends the lookup of the
\* project path, also when that path was looked up before; when the lookup
\* fails nothing else is sent and an error with no URL is returned, as when
\* the create call fails; otherwise one create call follows, for the ID the
\* lookup just returned.
C21_LookupFirst ==
    [][ fn'.op = "gitlab" =>
          /\ IsPrefix(fn.http, fn'.http)
          /\ Len(Added) \in {1, 2}
          /\ Added[1] = [method |-> "GET",
                         project |-> PathEscape(fn'.args.projectPath)]
          /\ Len(Added) = 1 <=> fn'.err = "lookup"
          /\ Len(Added) = 2 =>
                 /\ Added[2].method = "POST"
                 /\ Added[2].source_branch = fn'.args.sourceBranch
                 /\ Added[2].project = fn'.args.projectID
          /\ fn'.err # "" <=> fn'.url = <<>>
      ]_vars

\* a second invocation for the same project looked it up again and
\* created a request for the new ID
C21_Witness ==
    /\ fn.op = "gitlab" /\ Len(fn.http) = 4 /\ fn.err = ""
    /\ fn.http[1] = fn.http[3] /\ fn.http[1].method = "GET"
    /\ fn.http[2].project = 7 /\ fn.http[4].project = 123

----------------------------------------------------------------------------
(* internal/config: the configuration record and its file                  *)

Quote == "\""
Backslash == "\\"
Newline == "\n"

\* strings.HasPrefix, strings.HasSuffix
HasPrefix(s, p) == Len(p) <= Len(s) /\ SubSeq(s, 1, Len(p)) = p
HasSuffix(s, p) ==
    Len(p) <= Len(s) /\ SubSeq(s, Len(s) - Len(p) + 1, Len(s)) = p

\* strings.TrimPrefix, strings.TrimSuffix
TrimPrefix(s, p) == IF HasPrefix(s, p) THEN SubSeq(s, Len(p) + 1, Len(s)) ELSE s
TrimSuffix(s, p) == IF HasSuffix(s, p) THEN SubSeq(s, 1, Len(s) - Len(p)) ELSE s

\* the section and key names of config.toml
SecJira == <<"j","i","r","a">>
SecAuth == <<"j","i","r","a",".","a","u","t","h","_","m","e","t","h","o","d">>
SecGit == <<"g","i","t">>
SecPreferences == <<"p","r","e","f","e","r","e","n","c","e","s">>
KeyURL == <<"u","r","l">>
KeyEmail == <<"e","m","a","i","l">>
KeyProjectKey == <<"p","r","o","j","e","c","t","_","k","e","y">>
KeyType == <<"t","y","p","e">>
KeyToken == <<"t","o","k","e","n">>
KeyAuthMethod == <<"a","u","t","h","_","m","e","t","h","o","d">>
KeyProvider == <<"p","r","o","v","i","d","e","r">>
KeyBaseURL == <<"b","a","s","e","_","u","r","l">>
KeyOwner == <<"o","w","n","e","r">>
KeyRepo == <<"r","e","p","o">>
KeyBranchPrefix == <<"b","r","a","n","c","h","_","p","r","e","f","i","x">>
KeyDefaultTransition ==
    <<"d","e","f","a","u","l","t","_","t","r","a","n","s","i","t","i","o","n">>

\* &Settings{}: every field the empty string
EmptySettings ==
    [Jira |-> [URL |-> <<>>, Email |-> <<>>, ProjectKey |-> <<>>,
               AuthMethod |-> [Type |-> <<>>, Token |-> <<>>]],
     Git |-> [Provider |-> <<>>, BaseURL |-> <<>>, Token |-> <<>>,
              Owner |-> <<>>, Repo |-> <<>>],
     Preferences |-> [BranchPrefix |-> <<>>, DefaultTransition |-> <<>>]]

\* escape: every backslash is doubled, then every quote gets a backslash
RECURSIVE Escape(_)
Escape(value) ==
    IF value = <<>> THEN <<>>
    ELSE IF Head(value) = Backslash
         THEN <<Backslash, Backslash>> \o Escape(Tail(value))
    ELSE IF Head(value) = Quote
         THEN <<Backslash, Quote>> \o Escape(Tail(value))
    ELSE <<Head(value)>> \o Escape(Tail(value))

\* fmt.Sprintf("key = \"%s\"\n", escape(value))
KeyLine(key, value) ==
    key \o <<" ", "=", " ", Quote>> \o Escape(value) \o <<Quote, Newline>>

\* "[section]\n"
SectionLine(section) == <<"[">> \o section \o <<"]", Newline>>

\* Settings.toTOML: owner and repo are written only when not empty
ToTOML(s) ==
    SectionLine(SecJira)
      \o KeyLine(KeyURL, s.Jira.URL)
      \o KeyLine(KeyEmail, s.Jira.Email)
      \o KeyLine(KeyProjectKey, s.Jira.ProjectKey) \o <<Newline>>
      \o SectionLine(SecAuth)
      \o KeyLine(KeyType, s.Jira.AuthMethod.Type)
      \o KeyLine(KeyToken, s.Jira.AuthMethod.Token) \o <<Newline>>
      \o SectionLine(SecGit)
      \o KeyLine(KeyProvider, s.Git.Provider)
      \o KeyLine(KeyBaseURL, s.Git.BaseURL)
      \o KeyLine(KeyToken, s.Git.Token)
      \o (IF s.Git.Owner # <<>> THEN KeyLine(KeyOwner, s.Git.Owner) ELSE <<>>)
      \o (IF s.Git.Repo # <<>> THEN KeyLine(KeyRepo, s.Git.Repo) ELSE <<>>)
      \o <<Newline>>
      \o SectionLine(SecPreferences)
      \o KeyLine(KeyBranchPrefix, s.Preferences.BranchPrefix)
      \o KeyLine(KeyDefaultTransition, s.Preferences.DefaultTransition)
      \o <<Newline>>

\* parseValue: the value is trimmed and loses one quote at each end; the
\* escapes are left as written
ParseValue(raw) ==
    TrimSuffix(TrimPrefix(TrimSpace(raw), <<Quote>>), <<Quote>>)

\* strings.SplitN(line, "=", 2)
SplitN2(line, sep) ==
    LET at == { i \in 1..Len(line) : line[i] = sep }
    IN  IF at = {} THEN <<line>>
        ELSE LET i == CHOOSE i \in at : \A j \in at : i <= j
             IN  <<SubSeq(line, 1, i - 1), SubSeq(line, i + 1, Len(line))>>

\* assignJiraField
AssignJiraField(s, key, value) ==
    CASE key = KeyURL -> [s EXCEPT !.Jira.URL = value]
      [] key = KeyEmail -> [s EXCEPT !.Jira.Email = value]
      [] key = KeyProjectKey -> [s EXCEPT !.Jira.ProjectKey = value]
      [] OTHER -> s

\* assignJiraAuthField
AssignJiraAuthField(s, key, value) ==
    CASE key = KeyType -> [s EXCEPT !.Jira.AuthMethod.Type = value]
      [] key = KeyToken -> [s EXCEPT !.Jira.AuthMethod.Token = value]
      [] OTHER -> s

\* assignGitField
AssignGitField(s, key, value) ==
    CASE key = KeyProvider -> [s EXCEPT !.Git.Provider = value]
      [] key = KeyBaseURL -> [s EXCEPT !.Git.BaseURL = value]
      [] key = KeyToken -> [s EXCEPT !.Git.Token = value]
      [] key = KeyOwner -> [s EXCEPT !.Git.Owner = value]
      [] key = KeyRepo -> [s EXCEPT !.Git.Repo = value]
      [] OTHER -> s

\* assignPreferencesField
AssignPreferencesField(s, key, value) ==
    CASE key = KeyBranchPrefix -> [s EXCEPT !.Preferences.BranchPrefix = value]
      [] key = KeyDefaultTransition ->
             [s EXCEPT !.Preferences.DefaultTransition = value]
      [] OTHER -> s

\* the switch of parseTOML on the current section
Assign(s, section, key, value) ==
    CASE section = SecJira -> AssignJiraField(s, key, value)
      [] section = SecAuth -> AssignJiraAuthField(s, key, value)
      [] section = SecGit -> AssignGitField(s, key, value)
      [] section = SecPreferences -> AssignPreferencesField(s, key, value)
      [] OTHER -> s

\* the loop of parseTOML over the lines the scanner yields; the lines of
\* the model stay far below the scanner's limit of 64 KiB
RECURSIVE ParseLines(_, _, _)
ParseLines(lines, section, s) ==
    IF lines = <<>> THEN s
    ELSE LET line == TrimSpace(Head(lines))
             rest == Tail(lines)
         IN  IF line = <<>> \/ HasPrefix(line, <<"#">>)
             THEN ParseLines(rest, section, s)
             ELSE IF HasPrefix(line, <<"[">>) /\ HasSuffix(line, <<"]">>)
             THEN ParseLines(rest,
                             TrimSpace(SubSeq(line, 2, Len(line) - 1)), s)
             ELSE LET parts == SplitN2(line, "=")
                  IN  IF Len(parts) # 2 THEN ParseLines(rest, section, s)
                      ELSE ParseLines(rest, section,
                                      Assign(s, section, TrimSpace(parts[1]),
                                             ParseValue(parts[2])))

\* bufio.Scanner: the lines of contents without their line ends; a carriage
\* return it would drop is dropped by the TrimSpace of parseTOML
RECURSIVE ScanLines(_, _)
ScanLines(contents, from) ==
    IF from > Len(contents) THEN <<>>
    ELSE LET ends == { i \in from..Len(contents) : contents[i] = Newline }
         IN  IF ends = {} THEN <<SubSeq(contents, from, Len(contents))>>
             ELSE LET e == CHOOSE i \in ends : \A j \in ends : i <= j
                  IN  <<SubSeq(contents, from, e - 1)>>
                          \o ScanLines(contents, e + 1)

ParseTOML(contents) == ParseLines(ScanLines(contents, 1), <<>>, EmptySettings)

\* the file config.toml does not exist
NoFile == [exists |-> FALSE]

\* config.Load
Load(file) ==
    IF file = NoFile THEN [err |-> "ErrConfigNotFound", settings |-> EmptySettings]
    ELSE [err |-> "", settings |-> ParseTOML(file)]

\* Settings.Save: the file is created or truncated and written whole; an
\* I/O error leaves what was there
Save(file, s, ioOk) ==
    IF ioOk THEN [err |-> "", file |-> ToTOML(s)]
    ELSE [err |-> "write config", file |-> file]

\* the UTF-8 bytes of a string
RECURSIVE Bytes(_)
Bytes(s) ==
    IF s = <<>> THEN <<>>
    ELSE (CASE Head(s) = "é" -> <<"C3", "A9">>
            [] Head(s) = "É" -> <<"C3", "89">>
            [] OTHER -> <<Head(s)>>) \o Bytes(Tail(s))

\* MaskToken: len and the slice expressions count bytes
MaskToken(token) ==
    LET b == Bytes(token)
        n == Len(b)
    IN  IF n <= 4 THEN [i \in 1..n |-> "*"]
        ELSE SubSeq(b, 1, 4) \o <<"*", "*", "*">> \o SubSeq(b, n - 3, n)

----------------------------------------------------------------------------
(* The configuration commands: init, config show/set/validate, open        *)

\* what handlers read from the loaded record
ConfigOf(l) ==
    IF l.err # "" THEN NoConfig
    ELSE [url |-> l.settings.Jira.URL,
          prefix |-> l.settings.Preferences.BranchPrefix,
          transition |-> l.settings.Preferences.DefaultTransition,
          provider |-> l.settings.Git.Provider,
          owner |-> l.settings.Git.Owner, repo |-> l.settings.Git.Repo,
          project |-> l.settings.Jira.ProjectKey]

\* the outcome of one configuration command: the file it leaves, the
\* calls it made in order, the record it held and what it printed of the
\* tokens
NewRun(file, cmd, key, value) ==
    [op |-> "config", file |-> file, cmd |-> cmd, key |-> key,
     value |-> value, err |-> "", warn |-> FALSE, calls |-> <<>>,
     settings |-> EmptySettings, shown |-> <<>>]

\* the command made the call op, which succeeded or not
Did(g, op, ok) == [g EXCEPT !.calls = Append(@, [op |-> op, ok |-> ok])]

PersonalAccessToken ==
    <<"p","e","r","s","o","n","a","l","_","a","c","c","e","s","s","_",
      "t","o","k","e","n">>
APIToken == <<"a","p","i","_","t","o","k","e","n">>
GitHubAPI ==
    <<"h","t","t","p","s",":","/","/","a","p","i",".","g","i","t","h","u","b",
      ".","c","o","m">>

\* the record handleInit builds from the answers of the prompts
InitSettings(a) ==
    LET provider == ToLower(TrimSpace(a.gitProvider))
        hub == provider = GitHub
    IN  [Jira |-> [URL |-> TrimSpace(a.jiraURL),
                   Email |-> TrimSpace(a.jiraEmail),
                   ProjectKey |-> TrimSpace(a.projectKey),
                   AuthMethod |->
                       [Type |-> IF a.authChoice = <<"1">>
                                 THEN PersonalAccessToken ELSE APIToken,
                        Token |-> a.token]],
         Git |-> [Provider |-> provider,
                  BaseURL |-> IF hub THEN GitHubAPI ELSE TrimSpace(a.gitBaseURL),
                  Token |-> TrimSpace(a.gitToken),
                  Owner |-> IF hub THEN TrimSpace(a.owner) ELSE <<>>,
                  Repo |-> IF hub THEN TrimSpace(a.repo) ELSE <<>>],
         Preferences |-> [BranchPrefix |-> TrimSpace(a.branchPrefix),
                          DefaultTransition |->
                              TrimSpace(a.defaultTransition)]]

\* mutant: the connection is tested first and the record is saved only
\* when the test succeeds
InitSave_TestFirst(g, settings, o) ==
    LET g1 == Did(g, "TestConnection", o.test)
    IN  IF ~o.test THEN [g1 EXCEPT !.err = "tracker"]
        ELSE LET sv == Save(g.file, settings, o.save)
                 g2 == Did(g1, "Save", o.save)
             IN  IF sv.err # "" THEN [g2 EXCEPT !.err = sv.err]
                 ELSE [g2 EXCEPT !.file = sv.file,
                                 !.warn = settings.Git.Token = <<>>]

\* handleInit from settings.Save() on: a failed connection test and an
\* empty git token are warnings
InitSave(g, settings, o) ==
    LET sv == Save(g.file, settings, o.save)
        g1 == Did(g, "Save", o.save)
    IN  IF sv.err # "" THEN [g1 EXCEPT !.err = sv.err]
        ELSE [Did(g1, "TestConnection", o.test)
                 EXCEPT !.file = sv.file,
                        !.warn = ~o.test \/ settings.Git.Token = <<>>]

\* handleInit: a prompt that cannot be read ends it before anything is saved
HandleInit(file, a, o) ==
    LET g == NewRun(file, "init", <<>>, <<>>)
    IN  IF ~o.prompt THEN [g EXCEPT !.err = "prompt"]
        ELSE InitSave([g EXCEPT !.settings = InitSettings(a)],
                      InitSettings(a), o)

\* mutant: the error of config.Load is passed on as it is
LoadError_Raw(l) == l.err

\* loadSettings: the error it returns for the outcome l of config.Load
LoadError(l) ==
    IF l.err = "ErrConfigNotFound" THEN "config" ELSE l.err

\* handleConfigShow and printConfig: the two tokens are printed masked
HandleConfigShow(file, l) ==
    LET g == NewRun(file, "show", <<>>, <<>>)
    IN  IF l.err # "" THEN [g EXCEPT !.err = LoadError(l)]
        ELSE [g EXCEPT !.settings = l.settings,
                       !.shown = <<MaskToken(l.settings.Jira.AuthMethod.Token),
                                   MaskToken(l.settings.Git.Token)>>]

\* strings.Split(key, ".")
KeyParts(key) == Split(key, ".")

\* updateConfigValue
UpdateConfigValue(s, key, value) ==
    LET parts == KeyParts(key)
        section == parts[1]
        field == parts[2]
        set(t) == [err |-> "", settings |-> t]
        bad(e) == [err |-> e, settings |-> s]
    IN  IF Len(parts) # 2 THEN bad("invalid key format")
        ELSE CASE section = SecJira ->
                    (CASE field = KeyURL -> set([s EXCEPT !.Jira.URL = value])
                       [] field = KeyEmail ->
                              set([s EXCEPT !.Jira.Email = value])
                       [] field = KeyProjectKey ->
                              set([s EXCEPT !.Jira.ProjectKey = value])
                       [] field = KeyToken ->
                              set([s EXCEPT !.Jira.AuthMethod.Token = value])
                       [] field = KeyAuthMethod ->
                              set([s EXCEPT !.Jira.AuthMethod.Type = value])
                       [] OTHER -> bad("unknown jira field"))
               [] section = SecGit ->
                    (CASE field = KeyProvider ->
                              set([s EXCEPT !.Git.Provider = value])
                       [] field = KeyBaseURL ->
                              set([s EXCEPT !.Git.BaseURL = value])
                       [] field = KeyToken ->
                              set([s EXCEPT !.Git.Token = value])
                       [] field = KeyOwner ->
                              set([s EXCEPT !.Git.Owner = value])
                       [] field = KeyRepo -> set([s EXCEPT !.Git.Repo = value])
                       [] OTHER -> bad("unknown git field"))
               [] section = SecPreferences ->
                    (CASE field = KeyBranchPrefix ->
                              set([s EXCEPT !.Preferences.BranchPrefix = value])
                       [] field = KeyDefaultTransition ->
                              set([s EXCEPT
                                      !.Preferences.DefaultTransition = value])
                       [] OTHER -> bad("unknown preferences field"))
               [] OTHER -> bad("unknown configuration section")

\* handleConfigSet
HandleConfigSet(file, l, key, value, o) ==
    LET g == NewRun(file, "set", key, value)
    IN  IF l.err # "" THEN [g EXCEPT !.err = LoadError(l)]
        ELSE LET u == UpdateConfigValue(l.settings, key, value)
                 sv == Save(file, u.settings, o.save)
                 g1 == [g EXCEPT !.settings = u.settings]
             IN  IF u.err # "" THEN [g1 EXCEPT !.err = u.err]
                 ELSE IF sv.err # ""
                 THEN [Did(g1, "Save", FALSE) EXCEPT !.err = sv.err]
                 ELSE [Did(g1, "Save", TRUE) EXCEPT !.file = sv.file]

\* handleConfigValidate: a failed connection test and an empty git token
\* are reported, the command returns nil
HandleConfigValidate(file, l, o) ==
    LET g == NewRun(file, "validate", <<>>, <<>>)
    IN  IF l.err # "" THEN [g EXCEPT !.err = LoadError(l)]
        ELSE [Did(g, "TestConnection", o.test)
                 EXCEPT !.settings = l.settings,
                        !.warn = ~o.test \/ l.settings.Git.Token = <<>>]

\* utils.OpenURL(target) ends the command
OpenURL(g, target, ok) ==
    [Did(g, "OpenURL", ok) EXCEPT !.shown = target,
                                   !.err = IF ok THEN "" ELSE "open url"]

\* handleOpen, the part that opens the pull or merge request list
OpenPR(g, w, s, o) ==
    LET g1 == Did(g, "NewClient", o.repo2)
        cur == GitCurrentBranch(w, o.current2)
        g2 == Did(g1, "CurrentBranch", cur.ok)
        provider == ToLower(s.Git.Provider)
    IN  IF ~o.repo2 THEN [g1 EXCEPT !.err = "repo"]
        ELSE IF ~cur.ok THEN [g2 EXCEPT !.err = "git"]
        ELSE IF provider = GitHub
        THEN IF s.Git.Owner = <<>> \/ s.Git.Repo = <<>>
             THEN [g2 EXCEPT !.err = "owner/repo"]
             ELSE OpenURL(g2, [kind |-> "pulls", base |-> s.Git.BaseURL,
                               of |-> cur.branch], o.open)
        ELSE IF provider = GitLab
        THEN OpenURL(g2, [kind |-> "merge_requests", base |-> s.Git.BaseURL,
                          of |-> cur.branch], o.open)
        ELSE [g2 EXCEPT !.err = "provider"]

\* handleOpen, once the ticket ID is known
OpenTicket(g, w, s, ticketID, openPR, o) ==
    IF openPR THEN OpenPR(g, w, s, o)
    ELSE OpenURL(g, [kind |-> "browse", base |-> s.Jira.URL, of |-> ticketID],
                 o.open)

\* handleOpen: without a ticket ID it is read from the current branch
HandleOpen(file, l, w, ticketID, openPR, openBoard, o) ==
    LET g == NewRun(file, "open", ticketID, <<>>)
        s == l.settings
        g0 == [g EXCEPT !.settings = s]
        g1 == Did(g0, "NewClient", o.repo)
        cur == GitCurrentBranch(w, o.current)
        g2 == Did(g1, "CurrentBranch", cur.ok)
    IN  IF l.err # "" THEN [g EXCEPT !.err = LoadError(l)]
        ELSE IF openBoard
        THEN OpenURL(g0, [kind |-> "boards", base |-> s.Jira.URL,
                          of |-> s.Jira.ProjectKey], o.open)
        ELSE IF ticketID # <<>> THEN OpenTicket(g0, w, s, ticketID, openPR, o)
        ELSE IF ~o.repo THEN [g1 EXCEPT !.err = "repo"]
        ELSE IF ~cur.ok THEN [g2 EXCEPT !.err = "git"]
        ELSE IF ExtractTicketID(cur.branch) = NoTicket
        THEN [g2 EXCEPT !.err = "ticket"]
        ELSE OpenTicket(g2, w, s, ExtractTicketID(cur.branch).id, openPR, o)

----------------------------------------------------------------------------
(* The configuration commands as a state machine: the file config.toml is  *)
(* fn.file, and cfg is what the workflow commands load from it             *)

\* the longest config.toml of the model
MaxFileLen == 292

\* the answers given to the prompts of init
Answers(choice, token, provider, gitToken) ==
    [jiraURL |-> JiraURL, jiraEmail |-> <<"u","@","x">>,
     authChoice |-> choice, token |-> token, projectKey |-> <<"K">>,
     gitProvider |-> provider, owner |-> <<"o">>, repo |-> <<"r">>,
     gitBaseURL |-> <<"g",".","c","o">>, gitToken |-> gitToken,
     branchPrefix |-> Feat, defaultTransition |-> InProgress]

\* an API token and gitlab; a personal access token that holds a quote,
\* github in capitals and no git token
InitAnswers ==
    { Answers(<<"2">>, <<"s","e","c">>, GitLab, <<"t">>),
      Answers(<<"1">>, <<"a",Quote>>, <<"G","i","t","H","u","b">>, <<>>) }

InitOracles == Oracles({"prompt", "save", "test"})

\* section.field
Dotted(section, field) == section \o <<".">> \o field

\* keys of config set: two that are valid, one of one part, one of three
\* parts, an unknown section, an unknown field
SetKeys ==
    { Dotted(SecJira, KeyToken), Dotted(SecGit, KeyOwner),
      SecJira, Dotted(SecAuth, KeyToken), <<"x",".","y">>,
      Dotted(SecGit, <<"x">>) }

\* values of config set: plain, and one that holds a backslash
SetValues == { <<"v">>, <<"a",Backslash>> }

SetOracles == Oracles({"save"})

ValidateOracles == Oracles({"test"})

OpenOracles == Oracles({"repo", "current", "repo2", "current2", "open"})

\* devflow starts with no config.toml in a repository on its main branch
ConfigInit ==
    /\ fn = NewRun(NoFile, "none", <<>>, <<>>)
    /\ cfg = NoConfig
    /\ head = Main
    /\ branches = {Main}
    /\ staged = FALSE
    /\ unstaged = FALSE
    /\ log = <<>>
    /\ remote = {}
    /\ transitions = <<>>
    /\ requests = <<>>
    /\ tracker \in TicketSummaries
    /\ last = Idle
    /\ run = RunOff

\* a configuration command ends with outcome g; cfg is what the workflow
\* commands load from the file it leaves
ConfigStep(g) ==
    /\ last = Idle
    /\ g.file # NoFile => Len(g.file) <= MaxFileLen
    /\ fn' = g
    /\ cfg' = IF g.file = fn.file THEN cfg ELSE ConfigOf(Load(g.file))
    /\ UNCHANGED <<head, branches, staged, unstaged, log, remote, transitions,
                   requests, tracker, last, run>>

\* devflow init
ConfigInitCmd ==
    \E a \in InitAnswers, o \in InitOracles :
        \E g \in {HandleInit(fn.file, a, o)} : ConfigStep(g)

\* devflow config show
ConfigShow ==
    \E l \in {Load(fn.file)} :
        \E g \in {HandleConfigShow(fn.file, l)} : ConfigStep(g)

\* devflow config set <key> <value>
ConfigSet ==
    \E l \in {Load(fn.file)}, key \in SetKeys, value \in SetValues,
       o \in SetOracles :
        \E g \in {HandleConfigSet(fn.file, l, key, value, o)} : ConfigStep(g)

\* devflow config validate
ConfigValidate ==
    \E l \in {Load(fn.file)}, o \in ValidateOracles :
        \E g \in {HandleConfigValidate(fn.file, l, o)} : ConfigStep(g)

\* devflow open [ticket-id] [--pr] [--board]
Open ==
    \E l \in {Load(fn.file)}, t \in {<<>>, <<"A","B","-","1">>},
       pr \in BOOLEAN, board \in BOOLEAN, o \in OpenOracles :
        \E g \in {HandleOpen(fn.file, l, World, t, pr, board, o)} :
            ConfigStep(g)

\* devflow list, seen from the configuration file
ConfigList ==
    /\ last = Idle
    /\ \E o \in SearchOutcomes(1) :
         LET f == HandleList(cfg, <<>>, <<>>, FALSE, o)
             g == NewRun(fn.file, "list", <<>>, <<>>)
         IN  fn' = [(IF f.sent THEN Did(g, "SearchWithJQL", o.ok) ELSE g)
                       EXCEPT !.err = f.err]
    /\ UNCHANGED flowVars

\* devflow search, not interactive, seen from the configuration file
ConfigSearch ==
    /\ last = Idle
    /\ \E o \in SearchOutcomes(1) :
         LET opts == [Query |-> <<"a">>, Assignee |-> <<>>, Status |-> <<>>,
                      Project |-> <<>>, Limit |-> 1, Interactive |-> FALSE]
             r == HandleSearch(World, cfg, opts, o, "none",
                               <<"A","B","-","1">>,
                               CHOOSE x \in StartOracles : TRUE)
             g == NewRun(fn.file, "search", <<>>, <<>>)
         IN  fn' = [(IF r.f.sent THEN Did(g, "SearchWithJQL", o.ok) ELSE g)
                       EXCEPT !.err = r.f.err]
    /\ UNCHANGED flowVars

\* a workflow command ends with h; a behaviour ends with the first of them
ConfigFlow(h) ==
    /\ last = Idle
    /\ Within(h.w)
    /\ fn' = [NewRun(fn.file, h.out.cmd, <<>>, <<>>)
                  EXCEPT !.err = h.out.err, !.calls = h.out.calls]
    /\ head' = h.w.head
    /\ branches' = h.w.branches
    /\ staged' = h.w.staged
    /\ unstaged' = h.w.unstaged
    /\ log' = h.w.log
    /\ remote' = h.w.remote
    /\ transitions' = h.w.transitions
    /\ requests' = h.w.requests
    /\ last' = h.out
    /\ UNCHANGED <<cfg, tracker, run>>

\* devflow start, commit and done with the record loaded from the file
ConfigStart ==
    \E t \in TicketArgs, o \in StartOracles :
        \E h \in {HandleStart(World, cfg, t, tracker, o)} : ConfigFlow(h)

ConfigCommit ==
    \E m \in Messages, o \in CommitOracles :
        \E h \in {HandleCommit(World, cfg, m, o)} : ConfigFlow(h)

ConfigDone ==
    \E o \in DoneOracles :
        \E h \in {HandleDone(World, cfg, tracker, o)} : ConfigFlow(h)

NextConfig ==
    \/ ConfigInitCmd
    \/ ConfigShow
    \/ ConfigSet
    \/ ConfigValidate
    \/ Open
    \/ ConfigList
    \/ ConfigSearch
    \/ ConfigStart
    \/ ConfigCommit
    \/ ConfigDone

SpecConfig == ConfigInit /\ [][NextConfig]_vars

----------------------------------------------------------------------------
(* Properties of the configuration commands                                *)

\* C22: configuration round trip: after a record is saved, Load succeeds
\* and returns a record equal to the saved one in every field.
C22_RoundTrip ==
    fn.op = "config" /\ fn.cmd \in {"init", "set"} /\ fn.err = "" =>
        Load(fn.file) = [err |-> "", settings |-> fn.settings]

\* the commands that need the configuration record
NeedConfig ==
    {"start", "commit", "done", "list", "search", "open", "show", "set",
     "validate"}

\* C23: with no configuration record Load returns ErrConfigNotFound, and
\* start, commit, done, list, search, open and config show, set and validate
\* fail with the error that directs the user to init, before any tracker,
\* version-control or code-host call, leaving everything as it was.
C23_Missing ==
    [][ fn.op = "config" /\ fn.file = NoFile /\ fn'.cmd # "init" =>
          /\ Load(fn.file).err = "ErrConfigNotFound"
          /\ fn'.cmd \in NeedConfig
          /\ fn'.err = "config" /\ fn'.calls = <<>>
          /\ fn'.file = NoFile
          /\ worldVars' = worldVars
          /\ last' # last =>
                 /\ last'.cmd = fn'.cmd /\ last'.err = "config"
                 /\ last'.calls = <<>> /\ ~last'.opened
      ]_vars

\* done was run with no configuration record
C23_Witness ==
    /\ fn.op = "config" /\ fn.file = NoFile /\ fn.cmd = "done"
    /\ fn.err = "config" /\ last.cmd = "done" /\ last.err = "config"

\* the keys section.field of the record, and the field each one names
SettingKeys ==
    { Dotted(SecJira, KeyURL), Dotted(SecJira, KeyEmail),
      Dotted(SecJira, KeyProjectKey), Dotted(SecJira, KeyToken),
      Dotted(SecJira, KeyAuthMethod), Dotted(SecGit, KeyProvider),
      Dotted(SecGit, KeyBaseURL), Dotted(SecGit, KeyToken),
      Dotted(SecGit, KeyOwner), Dotted(SecGit, KeyRepo),
      Dotted(SecPreferences, KeyBranchPrefix),
      Dotted(SecPreferences, KeyDefaultTransition) }

Field(s, key) ==
    CASE key = Dotted(SecJira, KeyURL) -> s.Jira.URL
      [] key = Dotted(SecJira, KeyEmail) -> s.Jira.Email
      [] key = Dotted(SecJira, KeyProjectKey) -> s.Jira.ProjectKey
      [] key = Dotted(SecJira, KeyToken) -> s.Jira.AuthMethod.Token
      [] key = Dotted(SecJira, KeyAuthMethod) -> s.Jira.AuthMethod.Type
      [] key = Dotted(SecGit, KeyProvider) -> s.Git.Provider
      [] key = Dotted(SecGit, KeyBaseURL) -> s.Git.BaseURL
      [] key = Dotted(SecGit, KeyToken) -> s.Git.Token
      [] key = Dotted(SecGit, KeyOwner) -> s.Git.Owner
      [] key = Dotted(SecGit, KeyRepo) -> s.Git.Repo
      [] key = Dotted(SecPreferences, KeyBranchPrefix) ->
             s.Preferences.BranchPrefix
      [] key = Dotted(SecPreferences, KeyDefaultTransition) ->
             s.Preferences.DefaultTransition

\* C24: config set with a key that is not section.field of the record
\* returns an error and does not write the stored record; with a valid key
\* the stored record afterwards has the named field equal to the value and
\* every other field as it was stored before.
C24_ConfigSet ==
    [][ fn.op = "config" /\ fn.file # NoFile /\ fn'.cmd = "set" =>
          IF fn'.key \notin SettingKeys
          THEN fn'.err # "" /\ fn'.file = fn.file /\ fn'.calls = <<>>
          ELSE fn'.err = "" =>
                 /\ fn'.calls = <<[op |-> "Save", ok |-> TRUE]>>
                 /\ fn'.file = ToTOML(fn'.settings)
                 /\ \A k \in SettingKeys :
                        Field(Load(fn'.file).settings, k) =
                            IF k = fn'.key THEN fn'.value
                            ELSE Field(Load(fn.file).settings, k)
      ]_vars

----------------------------------------------------------------------------
(* MaskToken as a function of the token                                    *)

\* the longest token
MaxTokenLen == 9

\* two letters of one byte and a letter of two bytes
TokenChars == {"a", "b", "é"}

Tokens == SeqsUpTo(TokenChars, MaxTokenLen)

MaskInit ==
    /\ fn = NoCall
    /\ FlowIdle

CallMaskToken ==
    /\ fn = NoCall
    /\ \E t \in Tokens :
           fn' = [op |-> "MaskToken", token |-> t, out |-> MaskToken(t)]
    /\ UNCHANGED flowVars

NextMask == CallMaskToken

SpecMask == MaskInit /\ [][NextMask]_vars

\* n asterisks
Stars(n) == [i \in 1..n |-> "*"]

\* C26: MaskToken gives as many asterisks as the token has characters when
\* it has at most 4, and otherwise its first four characters, three
\* asterisks and its last four characters.
C26_Mask ==
    fn.op = "MaskToken" =>
        LET n == Len(fn.token)
        IN  fn.out = IF n <= 4 THEN Stars(n)
                     ELSE Bytes(SubSeq(fn.token, 1, 4)) \o Stars(3)
                              \o Bytes(SubSeq(fn.token, n - 3, n))

\* the characters of the tokens a masked output may stand for
PeerChars == TokenChars \cup {"É"}

\* C30: the masked output of a token that is not empty does not reveal it:
\* a different token of the same length has the same masked output.
C30_Masked ==
    fn.op = "MaskToken" /\ fn.token # <<>> =>
        \E t \in [1..Len(fn.token) -> PeerChars] :
            t # fn.token /\ MaskToken(t) = fn.out

----------------------------------------------------------------------------
(* internal/jira: Client.UpdateStatus                                      *)

\* strings.EqualFold on the letters of the model
EqualFold(a, b) == ToLower(a) = ToLower(b)

\* GET and POST {baseURL}/rest/api/{version}/issue/{ticketID}/transitions
ListRequest(ticketID) == [method |-> "GET", ticket |-> ticketID, id |-> <<>>]
ApplyRequest(ticketID, id) == [method |-> "POST", ticket |-> ticketID, id |-> id]

\* mutant: the last listed transition of that name is taken
FindTransition_Last(listed, transitionName) ==
    LET m == { i \in DOMAIN listed :
                   EqualFold(listed[i].name, transitionName) }
    IN  IF m = {} THEN <<>>
        ELSE listed[CHOOSE i \in m : \A j \in m : j <= i].id

\* the loop of UpdateStatus: the ID of the first listed transition whose
\* name equals transitionName under case folding, or the empty string
FindTransition(listed, transitionName) ==
    LET m == { i \in DOMAIN listed :
                   EqualFold(listed[i].name, transitionName) }
    IN  IF m = {} THEN <<>>
        ELSE listed[CHOOSE i \in m : \A j \in m : i <= j].id

\* Client.UpdateStatus; o.list is how the listing ends, o.transitions what
\* the tracker lists, o.post whether the POST succeeds
UpdateStatus(g, ticketID, transitionName, o) ==
    LET listed == IF o.list = "ok" THEN o.transitions ELSE <<>>
        g1 == [op |-> "jira", http |-> Append(g.http, ListRequest(ticketID)),
               args |-> [ticketID |-> ticketID, name |-> transitionName,
                         list |-> o.list, listed |-> listed],
               err |-> ""]
        id == FindTransition(listed, transitionName)
    IN  IF o.list # "ok" THEN [g1 EXCEPT !.err = "list"]
        ELSE IF id = <<>> THEN [g1 EXCEPT !.err = "transition not found"]
        ELSE [g1 EXCEPT !.http = Append(@, ApplyRequest(ticketID, id)),
                        !.err = IF o.post THEN "" ELSE "post"]

\* the transitions a tracker may list: two whose names differ in case only
ListedTransitions ==
    { [id |-> <<"1">>, name |-> <<"G","o">>],
      [id |-> <<"2">>, name |-> <<"g","o">>],
      [id |-> <<"3">>, name |-> <<"E","n","d">>] }

\* the most transitions in one listing
MaxListed == 2

TransitionLists == SeqsUpTo(ListedTransitions, MaxListed)

TransitionNames == { <<"g","o">>, <<"G","O">>, <<"e","n","d">>, <<"x">> }

\* the listing succeeds and the POST succeeds or fails, or the listing fails
UpdateOracles ==
    { [list |-> "ok", transitions |-> l, post |-> p] :
          l \in TransitionLists, p \in BOOLEAN }
      \cup { [list |-> x, transitions |-> <<>>, post |-> TRUE] :
                 x \in Exchanges \ {"ok"} }

\* jira.NewClient: nothing sent yet
JiraInit ==
    /\ fn = [op |-> "jira", http |-> <<>>,
             args |-> [ticketID |-> <<>>, name |-> <<>>, list |-> "ok",
                       listed |-> <<>>],
             err |-> ""]
    /\ FlowIdle

CallUpdateStatus ==
    /\ Len(fn.http) + 2 <= MaxHTTP
    /\ \E n \in TransitionNames, o \in UpdateOracles :
           fn' = UpdateStatus(fn, <<"A","B","-","1">>, n, o)
    /\ UNCHANGED flowVars

NextJira == CallUpdateStatus

SpecJira == JiraInit /\ [][NextJira]_vars

\* the listed transitions whose name is the one asked for, up to case
Matching(listed, name) ==
    { i \in DOMAIN listed : ToUpper(listed[i].name) = ToUpper(name) }

\* C27: UpdateStatus first lists the transitions of the ticket; when the
\* listing fails or lists no transition of that name, compared without
\* case, it returns an error (transition not found when none matches) and
\* sends no POST; otherwise it sends one POST, for the first listed
\* transition of that name; the ID of every POST was listed.
C27_ListedOnly ==
    [][ fn'.op = "jira" =>
          LET a == fn'.args
              m == Matching(a.listed, a.name)
          IN  /\ IsPrefix(fn.http, fn'.http)
              /\ Added[1] = [method |-> "GET", ticket |-> a.ticketID,
                             id |-> <<>>]
              /\ \A i \in 2..Len(Added) :
                     /\ Added[i].method = "POST"
                     /\ \E j \in DOMAIN a.listed : a.listed[j].id = Added[i].id
              /\ IF a.list # "ok" \/ m = {}
                 THEN /\ Len(Added) = 1 /\ fn'.err # ""
                      /\ a.list = "ok" => fn'.err = "transition not found"
                 ELSE /\ Len(Added) = 2
                      /\ \E i \in m :
                           /\ \A j \in m : i <= j
                           /\ Added[2] = [method |-> "POST",
                                          ticket |-> a.ticketID,
                                          id |-> a.listed[i].id]
      ]_vars

\* both "Go" and "go" were listed, in this order, "GO" was asked for and
\* the first of them was applied
C27_Witness ==
    /\ fn.op = "jira" /\ Len(fn.http) = 2 /\ fn.err = ""
    /\ fn.args.name = <<"G","O">>
    /\ Len(fn.args.listed) = 2
    /\ fn.args.listed[1].id = <<"1">> /\ fn.args.listed[2].id = <<"2">>
    /\ fn.http[2].method = "POST" /\ fn.http[2].id = <<"1">>

----------------------------------------------------------------------------
(* Properties of done: the provider selection and repeated invocations     *)

\* the provider selection done rejects: neither github nor gitlab, or
\* github without an owner or a repo
ProviderRejected ==
    /\ cfg # NoConfig
    /\ \/ ToUpper(cfg.provider) \notin {ToUpper(GitHub), ToUpper(GitLab)}
       \/ /\ ToUpper(cfg.provider) = ToUpper(GitHub)
          /\ cfg.owner = <<>> \/ cfg.repo = <<>>

\* how many calls of the invocation were calls of op
CountOp(out, op) == Cardinality({ i \in DOMAIN out.calls : out.calls[i].op = op })

\* done got past the clean-tree check, the ticket ID of the branch, the
\* push and the ticket fetch
PassedFetch(out) ==
    /\ Len(out.calls) >= 4
    /\ \A i \in 1..4 : out.calls[i].ok
    /\ out.calls[4].op = "GetTicket"

\* C28: with a provider selection that done rejects, done returns an error
\* and makes no create request and no transition attempt; the selection is
\* looked at only after the push and the ticket fetch: the error about it
\* comes after both succeeded, with the branch on the remote, and a done
\* that got that far returns it.
C28_LateProvider ==
    /\ [](last.cmd = "done" /\ ProviderRejected =>
            /\ last.err # ""
            /\ ~CalledOp(last, "CreateRequest")
            /\ ~CalledOp(last, "UpdateStatus")
            /\ last.err \in {"unsupported", "owner/repo"} <=> PassedFetch(last)
            /\ PassedFetch(last) =>
                   /\ CallOps(last) = <<"IsClean", "CurrentBranch", "Push",
                                        "GetTicket">>
                   /\ last.branch \in remote)
    /\ [][last'.cmd = "done" /\ ProviderRejected =>
            /\ requests' = requests /\ transitions' = transitions
            /\ PassedFetch(last') => remote' = remote \cup {head}]_vars

\* done pushed a branch that was not on the remote and fetched the ticket
\* before it rejected the provider
C28_Witness ==
    /\ last.cmd = "done" /\ last.err = "unsupported" /\ PassedFetch(last)
    /\ remote = {last.branch} /\ requests = <<>>

\* what every done that gets to the create request does
OneRequest ==
    /\ CountOp(last', "CreateRequest") = 1
    /\ last'.calls[5].ok =>
           /\ Len(requests') = Len(requests) + 1
           /\ requests'[Len(requests')].source = head
           /\ CountOp(last', "UpdateStatus") = 1
           /\ last'.err = ""
    /\ ~last'.calls[5].ok => requests' = requests /\ last'.err # ""

\* C29: done has no idempotence guard: every done that passes the
\* clean-tree check, the ticket-ID extraction, the push and the ticket
\* fetch, with a provider selection done accepts, makes exactly one create
\* request, also on a branch that has a request already; every done that
\* succeeds adds one request and makes one In Review attempt.
C29_NoGuard ==
    [][ last'.cmd = "done" =>
          /\ PassedFetch(last') /\ ~ProviderRejected => OneRequest
          /\ last'.err = "" => PassedFetch(last') /\ OneRequest
      ]_vars

\* two done invocations on the same branch created two requests and made
\* two transitions to In Review
C29_Witness ==
    /\ last.cmd = "done" /\ last.err = ""
    /\ Len(requests) = 2 /\ requests[1].source = requests[2].source
    /\ Len(transitions) >= 2
    /\ transitions[Len(transitions)].name = InReview
    /\ transitions[Len(transitions) - 1].name = InReview

\* C29 as stated: every done that passes the clean-tree check, the
\* ticket-ID extraction, the push and the ticket fetch makes exactly one
\* create request.
C29_Original ==
    [][ last'.cmd = "done" /\ PassedFetch(last') => OneRequest ]_vars

====
